---------------------------- MODULE Spec2Model ----------------------------
(***************************************************************************)
(* Model of paulstuart/snmputil: the adaptive poller (poller.go) and the   *)
(* sender pipeline (senders.go).                                           *)
(*                                                                         *)
(* Time is kept relative: every duration is in milliseconds, as in the     *)
(* code's latency history; delays, frequencies and means are in seconds.   *)
(***************************************************************************)
EXTENDS Integers, Sequences, FiniteSets, TLC

VARIABLES
    \* ---- poll sessions (poller.go) ----
    pc,         \* position of each session's Poller goroutine
    crit,       \* the caller's Criteria of each session (Freq, Count), has an ErrFunc
    count,      \* Poller's by-value copy of c.Count, decremented per cycle
    delay,      \* Poller's local "delay" (seconds)
    mean,       \* Poller's local "mean" of the last evaluation (seconds)
    latency,    \* bulkColumns' captured times / timeIn / timeCnt
    sinceTimer, \* now - timer (ms): time elapsed since the last avg() call
    clk,        \* the time.Tick channel: [period, until, buf]
    err,        \* Poller's local "err": result of the last walk
    ret,        \* what Poller returned (Running while it has not returned)
    connOpen,   \* client.Conn is connected and not closed
    walks,      \* number of walk cycles the session has performed
    fnArg,      \* argument of the last call of the ErrFunc (NotCalled before)
    done,       \* the package channel "done" is closed
    device,     \* what the polled device can answer: latencies and pdus per walk
    prof,       \* each session's Profile and what setup will meet
    rfr,        \* each session's refresh goroutine: [pc, left, n, err, cache]
    quits,      \* number of calls of Quit so far
    panicked,   \* the process has died of a panic
    \* ---- sender pipeline (senders.go) ----
    cook,       \* CalcSender's Recipies: name -> Recipe
    saved,      \* CalcSender's map saved: oid -> dataPoint
    seen,       \* every sample handed to the Calc stage so far, oldest first
    out,        \* what the last Calc call passed to the wrapped sender, in order
    calcRet,    \* what the last Calc call returned
    answers,    \* what the wrapped sender answered to each sample of out
    split,      \* the last call of the SplitSender: [err1, err2, ret]
    \* ---- Filter stage (senders.go) ----
    stage,      \* what RegexpSender returned: [err, regexps, keep]
    fcall,      \* the last call of the Filter stage: [name, fwd, ret]
    \* ---- one walk through the handler of bulkColumns (poller.go) ----
    hcfg,       \* what the handler has captured: rtree, oidBase, crit, the caches
    cyc,        \* the walk in progress: [state, n, err, fnArg]
    hlast,      \* the last call of the handler: the pdu and what became of it
    \* ---- the latency history on its own (poller.go) ----
    ring,       \* times / timeIn / timeCnt of one bulkColumns
    hist,       \* every duration recorded so far, oldest first
    rdev,       \* the device: its first cycle's duration and the growth per cycle
    \* ---- one table build (oidTranslate) ----
    load,       \* [pc, feed, toSend, work, out, table]
    \* ---- the two mutexes of one bulkColumns (poller.go) ----
    lk,         \* owners of m and tux, where the two threads are, the last access
    \* ---- sessions and the tag maps of their Criteria (poller.go) ----
    sh,         \* [maps, sess]: each map's "host", each session's map, state, last sample
    \* ---- one call through SplitSender(StripSender(s1, taglist), s2) ----
    fan,        \* [passed, taglist, calls, ret]: the sample passed, what s1 and s2 got
    \* ---- the tables oidReader fills (lookupOID, dupeNames, oidBase, rtree) ----
    tbl,        \* [maps, log]: the four maps and the MibInfo inserted so far, oldest first
    \* ---- one application of a decoder ----
    fx          \* [fn, in, done, out]: the function, its argument, its result

pollVars == <<pc, crit, count, delay, mean, latency, sinceTimer, clk, err, ret,
              connOpen, walks, fnArg, done, device>>

procVars == <<prof, rfr, quits, panicked>>

sendVars == <<cook, saved, seen, out, calcRet, answers, split>>

filterVars == <<stage, fcall>>

walkVars == <<hcfg, cyc, hlast>>

ringVars == <<ring, hist, rdev>>

\* the parts of the program that are modelled on their own
applyVars == <<fan, tbl, fx>>

unitVars == <<ringVars, load, lk, sh, applyVars>>

\* what the poll sessions and the Calc/Split pipeline leave alone
notPollVars == <<sendVars, filterVars, walkVars, unitVars>>

notSendVars == <<pollVars, procVars, filterVars, walkVars, unitVars>>

notFilterVars == <<pollVars, procVars, sendVars, walkVars, unitVars>>

notWalkVars == <<pollVars, procVars, sendVars, filterVars, unitVars>>

sessionVars == <<pollVars, procVars, sendVars, filterVars, walkVars>>

notRingVars == <<sessionVars, load, lk, sh, applyVars>>

notLoadVars == <<sessionVars, ringVars, lk, sh, applyVars>>

notLockVars == <<sessionVars, ringVars, load, sh, applyVars>>

notShareVars == <<sessionVars, ringVars, load, lk, applyVars>>

notFanVars == <<sessionVars, ringVars, load, lk, sh, tbl, fx>>

notTableVars == <<sessionVars, ringVars, load, lk, sh, fan, fx>>

notDecodeVars == <<sessionVars, ringVars, load, lk, sh, fan, tbl>>

vars == <<sessionVars, unitVars>>

-----------------------------------------------------------------------------
(* Bounds of the model *)

MaxWalks == 4       \* walk cycles per session before the tick source is cut off
MaxPdus == 1        \* values returned by one walk
MaxCount == 2       \* largest Criteria.Count tried
MaxSends == 3       \* samples handed to one Calc stage
MaxPatterns == 2    \* patterns given to one Filter stage
MaxBulk == 2        \* values of one bulk result handed to the handler
MaxRefresh == 2     \* ticks of one session's refresh ticker
MaxQuits == 2       \* calls of Quit in one process
MaxRecords == 34    \* durations recorded into one latency history
MaxFeed == 3        \* definitions the schema feed of one table build holds

(* Program constants *)

RingLen == 32       \* len(times)
MsPerSec == 1000    \* "stats are in ms but we work in seconds"
Minute == 60

Nil == "nil"
Running == "running"
NotCalled == "not called"

Freqs == {30, 90}
Latencies == {0, 100000}
WalkErrs == {Nil, "request error", "walker error"}

Sessions == DOMAIN pc

\* samples for the sender pipeline
Empty == [x \in {} |-> x]
Tags(oid) == [k \in {"host", "oid"} |-> IF k = "oid" THEN oid ELSE "sw1"]
NoOidTags == [k \in {"host"} |-> "sw1"]
Stamp(t) == [Start |-> t, Stop |-> t]
Sample(name, tags, value, ts) == [name |-> name, tags |-> tags, value |-> value, ts |-> ts]
Instants == {0, 10}
Samples ==
    [name : {"octets"}, tags : {Tags(".1.1")},
     value : {[type |-> "uint64", n |-> 1000], [type |-> "uint64", n |-> 1500]},
     ts : {Stamp(t) : t \in Instants}]
    \cup {Sample("octets", Tags(".1.1"), [type |-> "int", n |-> -5], Stamp(10)),
          Sample("octets", Tags(".1.1"), [type |-> "string", n |-> 0], Stamp(10)),
          Sample("octets", Tags(".1.2"), [type |-> "uint64", n |-> 1500], Stamp(0)),
          Sample("octets", Tags(".1.2"), [type |-> "uint64", n |-> 1000], Stamp(10)),
          Sample("octets", NoOidTags, [type |-> "uint64", n |-> 1000], Stamp(10)),
          Sample("sysUpTime", NoOidTags, [type |-> "uint64", n |-> 1500], Stamp(10)),
          Sample("sysUpTime", Tags(".1.1"), [type |-> "uint64", n |-> 1500], Stamp(10))}
SendErrs == {Nil, "send failed"}
Recipes == [Rename : {"", "rate"}, Orig : BOOLEAN, Rate : BOOLEAN]

-----------------------------------------------------------------------------
(* The latency history: started and avg of bulkColumns *)

NewLatency == [times |-> [i \in 0..(RingLen - 1) |-> 0], timeIn |-> 0, timeCnt |-> 0]

started(l, d) ==
    IF l.timeIn = RingLen
    THEN [l EXCEPT !.timeIn = 0, !.times[0] = d]
    ELSE [l EXCEPT !.times[l.timeIn] = d,
                   !.timeIn = l.timeIn + 1,
                   !.timeCnt = IF l.timeCnt < RingLen THEN l.timeCnt + 1 ELSE l.timeCnt]

RECURSIVE SumTimes(_, _)
SumTimes(t, n) == IF n = 0 THEN 0 ELSE t[n - 1] + SumTimes(t, n - 1)

avg(l) == IF l.timeCnt = 0 THEN 0 ELSE SumTimes(l.times, l.timeCnt) \div l.timeCnt

(* The walk handler is called once per returned value: each call records    *)
(* now - timer, where now has advanced by the value's arrival latency.      *)
RECURSIVE walker(_, _, _)
walker(l, since, lats) ==
    IF lats = <<>> THEN l
    ELSE walker(started(l, since + Head(lats)), since + Head(lats), Tail(lats))

RECURSIVE SumSeq(_)
SumSeq(s) == IF s = <<>> THEN 0 ELSE Head(s) + SumSeq(Tail(s))

\* the handler's started(now) for one more value, the cycle having taken
\* rdev.step ms longer than the one before
Record ==
    /\ Len(hist) < MaxRecords
    /\ LET d == rdev.base + rdev.step * Len(hist) IN
        /\ ring' = started(ring, d)
        /\ hist' = Append(hist, d)
    /\ UNCHANGED rdev
    /\ UNCHANGED notRingVars

InitRing(devs) ==
    /\ ring = NewLatency
    /\ hist = <<>>
    /\ rdev \in devs

RingDevices == [base : {0, 50}, step : {1, 2}]


-----------------------------------------------------------------------------
(* time.Tick: a ticker of the given period whose channel buffers one tick *)

Tick(d) == [period |-> d * MsPerSec, until |-> d * MsPerSec, buf |-> FALSE]

\* the ticker after dt milliseconds have passed without a receive
Elapse(c, dt) ==
    IF dt < c.until
    THEN [c EXCEPT !.until = c.until - dt]
    ELSE [c EXCEPT !.until = c.period - ((dt - c.until) % c.period), !.buf = TRUE]

\* a receive from the channel: takes the buffered tick or blocks until the next
Receive(c) ==
    IF c.buf THEN [c EXCEPT !.buf = FALSE] ELSE [c EXCEPT !.until = c.period]

-----------------------------------------------------------------------------
(* The delay adjustment at the top of Poller's loop *)

\* the whole minute at or below the mean instead of the next one above it
RaisedDelay_Floor(m) == (m \div Minute) * Minute

\* the mean itself instead of the next whole minute above it
RaisedDelay_Mean(m) == m

RaisedDelay(m) == ((m \div Minute) + 1) * Minute

LoweredDelay(d) == d - Minute

Raise(m, d) == m > d

Lower(m, d, freq) == m < (d - Minute) /\ d > freq

-----------------------------------------------------------------------------
(* Sender pipeline: values *)

\* A uint64 is written [top, off] and stands for top * 2^64 + off, with
\* top = 0 and off >= 0, or top = 1 and off < 0 (the upper values that a
\* negative signed integer converts to).
ToUint64(n) == [top |-> IF n < 0 THEN 1 ELSE 0, off |-> n]

U64GE(a, b) == a.top > b.top \/ (a.top = b.top /\ a.off >= b.off)

\* a - b in uint64 arithmetic (modulo 2^64)
U64Sub(a, b) == ToUint64(a.off - b.off)

IntegerTypes == {"uint", "int", "uint64", "int64", "uint32", "int32"}

\* counter: [err, u]
counter(value) ==
    IF value.type \in IntegerTypes
    THEN [err |-> Nil, u |-> ToUint64(value.n)]
    ELSE [err |-> "invalid cooked data type", u |-> ToUint64(0)]

\* errors.Wrap(err, msg): the message is "msg: err"
Wrap(e, msg) == msg \o ": " \o e

-----------------------------------------------------------------------------
(* CalcSender *)

HasKey(f, k) == k \in DOMAIN f

\* the difference is always taken, in uint64 arithmetic
Delta_Modular(this, prior) == U64Sub(this, prior)

\* the delta of this against the prior value: "assume the lesser value is
\* due to [a reset] rather than get a possibly huge spike"
Delta(this, prior) == IF U64GE(this, prior) THEN U64Sub(this, prior) ELSE this

\* the tag is read without looking at ok: a missing key reads as ""
TagOid_Unchecked(tags) ==
    [ok |-> TRUE, oid |-> IF HasKey(tags, "oid") THEN tags["oid"] ELSE ""]

\* oid, ok := tags["oid"]
TagOid(tags) ==
    IF HasKey(tags, "oid") THEN [ok |-> TRUE, oid |-> tags["oid"]]
    ELSE [ok |-> FALSE, oid |-> ""]

\* the baseline is kept per metric name
SavedKey_ByName(name, oid) == name

\* the key of saved under which a sample's baseline is kept
SavedKey(name, oid) == oid

\* the baseline of an identifier is its first observation
Retain_KeepsFirst(sv, oid, this, when) ==
    IF HasKey(sv, oid) THEN sv
    ELSE [k \in DOMAIN sv \cup {oid} |->
            IF k = oid THEN [value |-> this, when |-> when] ELSE sv[k]]

\* "saved[oid] = dataPoint{this, ts.Stop}"
Retain(sv, oid, this, when) ==
    [k \in DOMAIN sv \cup {oid} |->
        IF k = oid THEN [value |-> this, when |-> when] ELSE sv[k]]

\* a rate is sent for a zero elapsed time as well
RateDue_NotNegative(since) == since >= 0

\* "if since > 0"
RateDue(since) == since > 0

\* One call of the sender that CalcSender returns.  errCooked and errPlain
\* are what the wrapped sender answers to the derived sample and to the
\* original sample, should it be called with them.
\* Result: [saved, out, errs, ret], errs being the answers to out.
CalcSender(sv, recipes, smp, errCooked, errPlain) ==
    IF HasKey(recipes, smp.name)
    THEN LET recipe == recipes[smp.name] IN
         IF ~TagOid(smp.tags).ok
         THEN [saved |-> sv, out |-> <<>>, errs |-> <<>>,
               ret |-> "no OID saved for calculation"]
         ELSE LET c == counter(smp.value) IN
         IF c.err # Nil
         THEN [saved |-> sv, out |-> <<>>, errs |-> <<>>, ret |-> c.err]
         ELSE
         LET oid == SavedKey(smp.name, TagOid(smp.tags).oid)
             this == c.u
             hasPrior == HasKey(sv, oid)
             delta == Delta(this, sv[oid].value)
             aka == IF Len(recipe.Rename) > 0 THEN recipe.Rename ELSE smp.name
             since == smp.ts.Stop - sv[oid].when
             cooked ==
                 IF ~hasPrior THEN <<>>
                 ELSE IF recipe.Rate
                 THEN IF RateDue(since)
                      THEN <<Sample(aka, smp.tags,
                                    [type |-> "float64", num |-> delta, den |-> since],
                                    smp.ts)>>
                      ELSE <<>>
                 ELSE <<Sample(aka, smp.tags, [type |-> "uint64", u |-> delta], smp.ts)>>
             cookedErr == IF cooked = <<>> THEN Nil ELSE errCooked
             cookedErrs == IF cooked = <<>> THEN <<>> ELSE <<errCooked>>
             sv2 == Retain(sv, oid, this, smp.ts.Stop)
         IN  IF recipe.Orig
             THEN [saved |-> sv2, out |-> Append(cooked, smp),
                   errs |-> Append(cookedErrs, errPlain), ret |-> errPlain]
             ELSE [saved |-> sv2, out |-> cooked, errs |-> cookedErrs, ret |-> cookedErr]
    ELSE [saved |-> sv, out |-> <<smp>>, errs |-> <<errPlain>>, ret |-> errPlain]

-----------------------------------------------------------------------------
(* SplitSender *)

\* nil as soon as one of the two senders succeeds
SplitSender_EitherOk(err1, err2) ==
    IF err1 # Nil /\ err2 # Nil THEN Wrap(err1, err2) ELSE Nil

\* the sender that SplitSender returns, given what s1 and s2 answer
SplitSender(err1, err2) ==
    IF err1 # Nil /\ err2 # Nil THEN Wrap(err1, err2)
    ELSE IF err1 # Nil THEN err1
    ELSE err2

\* The pipeline SplitSender(CalcSender(s, cook), s2): a sample goes to the
\* Calc stage and then to s2; s answers errCooked to a derived sample and
\* errPlain to an original one, s2 answers err2.
Send ==
    /\ Len(seen) < MaxSends
    /\ \E smp \in Samples :
       \E errCooked \in SendErrs :
       \E errPlain \in SendErrs :
       \E err2 \in {Nil, "s2 failed"} :
        LET r == CalcSender(saved, cook, smp, errCooked, errPlain) IN
        /\ saved' = r.saved
        /\ out' = r.out
        /\ calcRet' = r.ret
        /\ answers' = r.errs
        /\ seen' = Append(seen, smp)
        /\ split' = [err1 |-> r.ret, err2 |-> err2, ret |-> SplitSender(r.ret, err2)]
    /\ UNCHANGED cook
    /\ UNCHANGED notSendVars

-----------------------------------------------------------------------------
(* Filter stage: RegexpSender over regexpFilter *)

\* Names and identifiers are sequences of one-character strings.
\* A pattern is the regular expression "lit", "^lit", "lit$" or "^lit$" for a
\* literal lit; ".*lit" matches the names that "lit" matches.  A pattern
\* with bad set is one that regexp.Compile rejects.
Pattern(pre, lit, post) == [bad |-> FALSE, pre |-> pre, lit |-> lit, post |-> post]

BadPattern == [bad |-> TRUE, pre |-> FALSE, lit |-> <<>>, post |-> FALSE]

\* re.MatchString(name): the pattern matches somewhere in the name
MatchString(re, name) ==
    \E i \in 1..(Len(name) - Len(re.lit) + 1) :
        /\ SubSeq(name, i, i + Len(re.lit) - 1) = re.lit
        /\ re.pre => i = 1
        /\ re.post => i + Len(re.lit) - 1 = Len(name)

RECURSIVE AnyBad(_)
AnyBad(regexps) ==
    IF regexps = <<>> THEN FALSE ELSE Head(regexps).bad \/ AnyBad(Tail(regexps))

RECURSIVE AnyMatch(_, _)
AnyMatch(regexps, name) ==
    IF regexps = <<>> THEN FALSE
    ELSE MatchString(Head(regexps), name) \/ AnyMatch(Tail(regexps), name)

\* regexpFilter(regexps, keep): the error of a pattern that does not compile,
\* else the filter: filter(name) is TRUE for a name that is to be left out
regexpFilter(regexps, keep) ==
    [err |-> IF AnyBad(regexps) THEN "error parsing regexp" ELSE Nil,
     regexps |-> regexps, keep |-> keep]

\* filter(name): with keep the names no pattern matches are left out,
\* without keep the names some pattern matches
Filtered(f, name) ==
    IF f.keep THEN ~AnyMatch(f.regexps, name) ELSE AnyMatch(f.regexps, name)

\* RegexpSender(sender, regexps, keep): (nil, err) when a pattern does not
\* compile, else the stage that consults filter
RegexpSender(regexps, keep) ==
    LET f == regexpFilter(regexps, keep) IN [err |-> f.err, filter |-> f]

\* the stage returns nil for the names the filter lets through and forwards
\* the others
FilterCall_Inverted(st, name, senderErr) ==
    IF ~Filtered(st.filter, name)
    THEN [fwd |-> FALSE, ret |-> Nil]
    ELSE [fwd |-> TRUE, ret |-> senderErr]

\* one call of the stage: [fwd, ret], given what the wrapped sender answers
FilterCall(st, name, senderErr) ==
    IF Filtered(st.filter, name)
    THEN [fwd |-> FALSE, ret |-> Nil]
    ELSE [fwd |-> TRUE, ret |-> senderErr]

NameIfIn == <<"i", "f", "I", "n">>
NameIfTime == <<"i", "f", "T", "i", "m", "e">>
NameSysUpTime == <<"s", "y", "s", "U", "p", "T", "i", "m", "e">>
NameTimeout == <<"T", "i", "m", "e", "o", "u", "t">>
FilterNames == {NameIfIn, NameIfTime, NameSysUpTime, NameTimeout}

Patterns ==
    {Pattern(FALSE, <<"T", "i", "m", "e">>, FALSE),
     Pattern(FALSE, <<"T", "i", "m", "e">>, TRUE),
     Pattern(TRUE, <<"i", "f">>, FALSE),
     BadPattern}

RECURSIVE SeqsUpTo(_, _)
SeqsUpTo(S, n) ==
    IF n = 0 THEN {<<>>}
    ELSE SeqsUpTo(S, n - 1) \cup {Append(q, x) : q \in SeqsUpTo(S, n - 1), x \in S}

NoCall == [name |-> <<>>, fwd |-> FALSE, ret |-> NotCalled]

\* a sample is sent through the stage
FilterSend ==
    /\ stage.err = Nil
    /\ \E name \in FilterNames :
       \E e \in SendErrs :
        LET r == FilterCall(stage, name, e) IN
        fcall' = [name |-> name, fwd |-> r.fwd, ret |-> r.ret]
    /\ UNCHANGED stage
    /\ UNCHANGED notFilterVars

-----------------------------------------------------------------------------
(* The identifier table: rtree and oidBase, filled by oidReader or loadOIDs *)

IsPrefixOf(p, q) == Len(p) <= Len(q) /\ SubSeq(q, 1, Len(p)) = p

\* tree.Root().LongestPrefix(q): [ok, sub, v], the longest key of the tree
\* that the bytes of q start with, and the value stored under it
LongestPrefix(tree, q) ==
    LET keys == {k \in DOMAIN tree : IsPrefixOf(k, q)} IN
    IF keys = {} THEN [ok |-> FALSE, sub |-> <<>>, v |-> <<>>]
    ELSE LET k == CHOOSE k \in keys : \A j \in keys : Len(j) <= Len(k)
         IN  [ok |-> TRUE, sub |-> k, v |-> tree[k]]

\* rootOID(m)(oid): the registered root of a full identifier, "" if none
rootOID(tree, oid) == LongestPrefix(tree, oid).sub

\* "if len(subOID) < len(pdu.Name) { suffix = pdu.Name[len(subOID)+1:] }"
SuffixOf(subOID, name) ==
    IF Len(subOID) < Len(name) THEN SubSeq(name, Len(subOID) + 2, Len(name)) ELSE <<>>

\* identifiers, shortened: the interface table ".1" with its columns ".1.1"
\* and ".1.10", and the table ".2" indexed by words
OidIfEntry == <<".", "1">>
OidIfStatus == <<".", "1", ".", "1">>
OidIfIn == <<".", "1", ".", "1", "0">>
OidGroups == <<".", "2">>

NameIfEntry == <<"i", "f", "E", "n", "t", "r", "y">>
NameIfStatus == <<"i", "f", "S", "t", "a", "t", "u", "s">>
NameGroups == <<"g", "r", "o", "u", "p", "s">>

\* the labels of "INTEGER {up(1), down(2)}"
StatusLabels == [i \in {1, 2} |-> IF i = 1 THEN "up" ELSE "down"]

\* the definitions a MIB or an OID file can hold: name, identifier and the
\* reader that pduFunc picks from the SYNTAX
Definitions ==
    {[Name |-> NameIfEntry, OID |-> OidIfEntry, Fn |-> [kind |-> "pduType"]],
     [Name |-> NameIfStatus, OID |-> OidIfStatus, Fn |-> [kind |-> "intFormatter", m |-> StatusLabels]],
     [Name |-> NameIfIn, OID |-> OidIfIn, Fn |-> [kind |-> "pduType"]],
     [Name |-> NameGroups, OID |-> OidGroups, Fn |-> [kind |-> "pduType"]]}

DefOf(defs, oid) == CHOOSE d \in defs : d.OID = oid

\* oidReader (LoadMibs) fills rtree and oidBase; loadOIDs (LoadOIDFile) fills
\* rtree only
TreeOf(defs) == [oid \in {d.OID : d \in defs} |-> DefOf(defs, oid).Name]

BaseOf(defs) == [oid \in {d.OID : d \in defs} |-> [Fn |-> DefOf(defs, oid).Fn]]

-----------------------------------------------------------------------------
(* oidTranslate: the table build of LoadMibs *)

NumCPU == 2         \* runtime.NumCPU(): the parsing goroutines

Workers == 1..NumCPU

NoDef == [Name |-> <<>>, OID |-> <<>>, Fn |-> [kind |-> "none"]]

\* pipeIn <- oid: a parsing goroutine that is idle receives the next oid
LoadSend(w) ==
    /\ load.pc = "Sending"
    /\ load.toSend # <<>>
    /\ load.work[w] = NoDef
    /\ load' = [load EXCEPT !.work[w] = Head(load.toSend), !.toSend = Tail(load.toSend)]
    /\ UNCHANGED notLoadVars

\* parseMibInfo, then pipeOut <- *m (the channel holds 32000, more than a feed)
LoadParse(w) ==
    /\ load.work[w] # NoDef
    /\ load' = [load EXCEPT !.out = Append(load.out, load.work[w]), !.work[w] = NoDef]
    /\ UNCHANGED notLoadVars

\* every oid is sent: close(pipeIn), and wg.Wait() begins
LoadClose ==
    /\ load.pc = "Sending"
    /\ load.toSend = <<>>
    /\ load' = [load EXCEPT !.pc = "Waiting"]
    /\ UNCHANGED notLoadVars

\* every parsing goroutine has left its loop: wg.Wait() returns,
\* close(pipeOut), return nil
LoadReturn ==
    /\ load.pc = "Waiting"
    /\ \A w \in Workers : load.work[w] = NoDef
    /\ load' = [load EXCEPT !.pc = "Returned"]
    /\ UNCHANGED notLoadVars

\* the goroutine ranging over pipeOut: fn(m), which is oidReader
LoadApply ==
    /\ load.out # <<>>
    /\ load' = [load EXCEPT !.table = load.table \cup {Head(load.out)},
                            !.out = Tail(load.out)]
    /\ UNCHANGED notLoadVars

\* the feeds: the definitions of a MIB in the order the map of names yields
RECURSIVE Orders(_)
Orders(defs) ==
    IF defs = {} THEN {<<>>}
    ELSE UNION {{<<d>> \o o : o \in Orders(defs \ {d})} : d \in defs}

Feeds == UNION {Orders(defs) : defs \in {D \in SUBSET Definitions : Cardinality(D) <= MaxFeed}}

InitLoad(feeds) ==
    load \in {[pc |-> "Sending", feed |-> f, toSend |-> f,
               work |-> [w \in Workers |-> NoDef], out |-> <<>>, table |-> {}] :
              f \in feeds}

-----------------------------------------------------------------------------
(* The mutexes m and tux of bulkColumns, the polling thread (avg, then the  *)
(* handler per value: started, pduTags) and the refresh thread (columnInfo) *)

Free == "none"

\* the mutex whose Lock() is the next statement of the polling thread
PollWants(l) ==
    IF l.ppc \in {"avg", "started"} THEN "tux"
    ELSE IF l.ppc = "tagsIf" /\ l.pdu.isIf THEN "m"
    ELSE IF l.ppc = "tagsIndex" /\ l.hasIndex THEN "m"
    ELSE Free

Access(t, obj, l) == [t |-> t, obj |-> obj, m |-> l.m, tux |-> l.tux]

\* x.Lock() by the polling thread, x being free
PollLock ==
    /\ PollWants(lk) = "tux" => lk.tux = Free
    /\ PollWants(lk) = "m" => lk.m = Free
    /\ PollWants(lk) # Free
    /\ lk' = [lk EXCEPT !.tux = IF PollWants(lk) = "tux" THEN "poll" ELSE lk.tux,
                        !.m = IF PollWants(lk) = "m" THEN "poll" ELSE lk.m,
                        !.ppc = CASE lk.ppc = "avg" -> "inAvg"
                                  [] lk.ppc = "started" -> "inStarted"
                                  [] lk.ppc = "tagsIf" -> "inIf"
                                  [] lk.ppc = "tagsIndex" -> "inIndex"]
    /\ UNCHANGED notLockVars

\* pduTags returning (nil, false) with m still locked
PollInside_KeepsLock ==
    /\ lk.ppc \in {"inAvg", "inStarted", "inIf", "inIndex"}
    /\ lk' = CASE lk.ppc = "inAvg" ->
                    [lk EXCEPT !.acc = Access("poll", "timer", lk), !.tux = Free, !.ppc = "walk"]
                [] lk.ppc = "inStarted" ->
                    [lk EXCEPT !.acc = Access("poll", "times", lk), !.tux = Free, !.ppc = "tagsIf"]
                [] lk.ppc = "inIf" /\ ~lk.pdu.enabled ->
                    [lk EXCEPT !.acc = Access("poll", "enabled", lk), !.ppc = "walk"]
                [] lk.ppc = "inIf" /\ lk.pdu.enabled ->
                    [lk EXCEPT !.acc = Access("poll", "columns", lk), !.m = Free, !.ppc = "tagsIndex"]
                [] lk.ppc = "inIndex" ->
                    [lk EXCEPT !.acc = Access("poll", "suffixes", lk), !.m = Free, !.ppc = "walk"]
    /\ UNCHANGED notLockVars

\* the polling thread inside a critical section: what it reads or writes
\* there, and the Unlock() of each way out
PollInside ==
    /\ lk.ppc \in {"inAvg", "inStarted", "inIf", "inIndex"}
    /\ lk' = CASE lk.ppc = "inAvg" ->
                    [lk EXCEPT !.acc = Access("poll", "timer", lk), !.tux = Free, !.ppc = "walk"]
                [] lk.ppc = "inStarted" ->
                    [lk EXCEPT !.acc = Access("poll", "times", lk), !.tux = Free, !.ppc = "tagsIf"]
                [] lk.ppc = "inIf" /\ ~lk.pdu.enabled ->
                    [lk EXCEPT !.acc = Access("poll", "enabled", lk), !.m = Free, !.ppc = "walk"]
                [] lk.ppc = "inIf" /\ lk.pdu.enabled ->
                    [lk EXCEPT !.acc = Access("poll", "columns", lk), !.m = Free, !.ppc = "tagsIndex"]
                [] lk.ppc = "inIndex" ->
                    [lk EXCEPT !.acc = Access("poll", "suffixes", lk), !.m = Free, !.ppc = "walk"]
    /\ UNCHANGED notLockVars

\* the polling thread outside the critical sections: the walk hands the
\* handler a value or ends, pduTags passes a branch that does not apply
PollMove ==
    /\ \/ /\ lk.ppc = "walk"
          /\ \E isIf \in BOOLEAN, enabled \in BOOLEAN :
                lk' = [lk EXCEPT !.ppc = "started", !.pdu = [isIf |-> isIf, enabled |-> enabled]]
       \/ /\ lk.ppc = "walk"
          /\ lk' = [lk EXCEPT !.ppc = "avg"]
       \/ /\ lk.ppc = "tagsIf" /\ ~lk.pdu.isIf
          /\ lk' = [lk EXCEPT !.ppc = "tagsIndex"]
       \/ /\ lk.ppc = "tagsIndex" /\ ~lk.hasIndex
          /\ lk' = [lk EXCEPT !.ppc = "walk"]
    /\ UNCHANGED notLockVars

\* the refresh thread: a tick, m.Lock() of columnInfo, its lookups writing
\* the maps, and the deferred m.Unlock() at either return
RefreshStep ==
    /\ \/ /\ lk.rpc = "idle"
          /\ lk' = [lk EXCEPT !.rpc = "columnInfo"]
       \/ /\ lk.rpc = "columnInfo" /\ lk.m = Free
          /\ lk' = [lk EXCEPT !.m = "refresh", !.rpc = "inInfo", !.left = lk.lookups]
       \/ /\ lk.rpc = "inInfo" /\ lk.left > 0
          /\ \E e \in {Nil, "request error"} :
                lk' = IF e = Nil
                      THEN [lk EXCEPT !.acc = Access("refresh", "columns", lk), !.left = lk.left - 1]
                      ELSE [lk EXCEPT !.m = Free, !.rpc = "idle", !.left = 0]
       \/ /\ lk.rpc = "inInfo" /\ lk.left = 0
          /\ lk' = [lk EXCEPT !.m = Free, !.rpc = "idle"]
    /\ UNCHANGED notLockVars

NoAccess == [t |-> Free, obj |-> Free, m |-> Free, tux |-> Free]

InitLock(hasIndex, lookups) ==
    lk \in {[m |-> Free, tux |-> Free, ppc |-> "avg", pdu |-> [isIf |-> FALSE, enabled |-> FALSE],
             rpc |-> "idle", left |-> 0, acc |-> NoAccess, hasIndex |-> h, lookups |-> k] :
            h \in hasIndex, k \in lookups}

-----------------------------------------------------------------------------
(* Criteria.Tags is a map: a Criteria passed by value still refers to the   *)
(* caller's map, and sessions given the same map share it                   *)

\* client.Target of each session
HostOf(s) == IF s = 1 THEN "sw1" ELSE IF s = 2 THEN "sw2" ELSE "sw3"

Unset == ""

\* the caller's map that several Criteria hold
SharedMap == 0

\* setup: "if crit.Tags == nil { make }", then crit.Tags["host"] = client.Target;
\* bulkColumns captures crit
ShareSetup(s) ==
    /\ sh.sess[s].pc = "idle"
    /\ sh' = [sh EXCEPT !.maps[sh.sess[s].map] = HostOf(s), !.sess[s].pc = "polling"]
    /\ UNCHANGED notShareVars

\* the handler for one value: pduTags copies crit.Tags into the sample's tags
ShareSample(s) ==
    /\ sh.sess[s].pc = "polling"
    /\ sh' = [sh EXCEPT !.sess[s].host = sh.maps[sh.sess[s].map]]
    /\ UNCHANGED notShareVars

\* sessions S, each started with the caller's shared map or with no Tags, in
\* which case setup makes the session a map of its own
InitShare(S, shared) ==
    sh \in {[maps |-> [r \in {SharedMap} \cup S |-> Unset],
             sess |-> [s \in S |-> [pc |-> "idle", host |-> Unset,
                                    map |-> IF s \in with THEN SharedMap ELSE s]]] :
            with \in shared}

-----------------------------------------------------------------------------
(* The readers of oidInfo.Fn *)

\* the value a reader returns as it got it
Raw(pdu) == pdu.Value

\* intFormatter(m): pdu.Value.(int) panics on any other representation
intFormatter(m, pdu) ==
    IF pdu.Value.type # "int"
    THEN [panic |-> TRUE, err |-> Nil, value |-> Raw(pdu)]
    ELSE IF pdu.Value.n \in DOMAIN m
    THEN [panic |-> FALSE, err |-> Nil, value |-> [type |-> "string", s |-> m[pdu.Value.n]]]
    ELSE [panic |-> FALSE, err |-> "no label found for index", value |-> Raw(pdu)]

\* pduType: verifies the value against pdu.Type
pduType(pdu) ==
    IF pdu.Type \in {"Integer", "Gauge32", "TimeTicks", "Uinteger32", "IPAddress", "ObjectIdentifier"}
    THEN [panic |-> FALSE, err |-> Nil, value |-> Raw(pdu)]
    ELSE IF pdu.Type = "Counter32"
    THEN IF pdu.Value.type \in {"uint32", "int32", "uint", "int"}
         THEN [panic |-> FALSE, err |-> Nil, value |-> [type |-> "Counter32", n |-> pdu.Value.n]]
         ELSE [panic |-> FALSE, err |-> "invalid counter32 type", value |-> Raw(pdu)]
    ELSE IF pdu.Type = "Counter64"
    THEN IF pdu.Value.type \in IntegerTypes
         THEN [panic |-> FALSE, err |-> Nil, value |-> [type |-> "Counter64", n |-> pdu.Value.n]]
         ELSE [panic |-> FALSE, err |-> "invalid counter64 type", value |-> Raw(pdu)]
    ELSE IF pdu.Type = "OctetString"
    THEN IF pdu.Value.type # "bytes"
         THEN [panic |-> TRUE, err |-> Nil, value |-> Raw(pdu)]
         ELSE [panic |-> FALSE, err |-> Nil, value |-> [type |-> "string", s |-> pdu.Value.s]]
    ELSE [panic |-> FALSE, err |-> "unsupported type", value |-> Raw(pdu)]

\* the positions bitFormatter finds set in data: cnt counts the bits of each
\* byte from its least significant one
SetBits_LsbFirst(data) ==
    {p \in 0..(8 * Len(data) - 1) : (data[(p \div 8) + 1] \div 2^(p % 8)) % 2 = 1}

\* the positions bitFormatter finds set in data: for each byte d, eight times
\* "(d & 0x80) == 0x80", "d <<= 1" (d is a byte), "cnt++"
SetBits(data) ==
    {p \in 0..(8 * Len(data) - 1) :
        ((data[(p \div 8) + 1] * 2^(p % 8)) % 256) \div 128 = 1}

\* the positions of a set, lowest first: the order cnt takes them in
RECURSIVE Ascending(_)
Ascending(ps) ==
    IF ps = {} THEN <<>>
    ELSE LET p == CHOOSE p \in ps : \A q \in ps : p <= q IN <<p>> \o Ascending(ps \ {p})

\* the names of the positions bits, in their order, or the error of the first
\* position that has no label
RECURSIVE BitNames(_, _)
BitNames(m, bits) ==
    IF bits = <<>> THEN [err |-> Nil, names |-> <<>>]
    ELSE IF Head(bits) \notin DOMAIN m
    THEN [err |-> "no label found for index", names |-> <<>>]
    ELSE LET rest == BitNames(m, Tail(bits)) IN
         [err |-> rest.err, names |-> IF rest.err = Nil THEN <<m[Head(bits)]>> \o rest.names ELSE <<>>]

\* strings.Join(names, ",")
RECURSIVE Join(_)
Join(names) ==
    IF names = <<>> THEN ""
    ELSE IF Len(names) = 1 THEN names[1]
    ELSE names[1] \o "," \o Join(Tail(names))

\* bitFormatter(m): pdu.Value.([]byte) panics on any other representation
bitFormatter(m, pdu) ==
    IF pdu.Value.type # "bytes"
    THEN [panic |-> TRUE, err |-> Nil, value |-> Raw(pdu)]
    ELSE LET r == BitNames(m, Ascending(SetBits(pdu.Value.data))) IN
         IF r.err # Nil
         THEN [panic |-> FALSE, err |-> r.err, value |-> Raw(pdu)]
         ELSE [panic |-> FALSE, err |-> Nil, value |-> [type |-> "string", s |-> Join(r.names)]]

\* oInfo.Fn(pdu)
ReadPdu(fn, pdu) ==
    IF fn.kind = "intFormatter" THEN intFormatter(fn.m, pdu)
    ELSE IF fn.kind = "bitFormatter" THEN bitFormatter(fn.m, pdu)
    ELSE pduType(pdu)

-----------------------------------------------------------------------------
(* oidStrings: the words of an index suffix *)

\* strings.Split(in, ".")
RECURSIVE Split(_)
Split(in) ==
    IF \A i \in 1..Len(in) : in[i] # "." THEN <<in>>
    ELSE LET i == CHOOSE i \in 1..Len(in) : in[i] = "." /\ \A j \in 1..(i - 1) : in[j] # "."
         IN  <<SubSeq(in, 1, i - 1)>> \o Split(SubSeq(in, i + 1, Len(in)))

Digits == <<"0", "1", "2", "3", "4", "5", "6", "7", "8", "9">>

IsDigit(c) == \E i \in 1..10 : Digits[i] = c

DigitOf(c) == (CHOOSE i \in 1..10 : Digits[i] = c) - 1

\* n, _ := strconv.Atoi(bit): 0 when bit is not a number
RECURSIVE Atoi(_)
Atoi(bit) ==
    IF bit = <<>> \/ \E i \in 1..Len(bit) : ~IsDigit(bit[i]) THEN 0
    ELSE IF Len(bit) = 1 THEN DigitOf(bit[1])
    ELSE Atoi(SubSeq(bit, 1, Len(bit) - 1)) * 10 + DigitOf(bit[Len(bit)])

\* the printable characters among the bytes (strconv.IsPrint on ASCII)
IsPrint(n) == n >= 32 /\ n <= 126

\* the character of a byte, for the bytes the sample identifiers hold
Chr(n) == CASE n = 65 -> "A" [] n = 66 -> "B" [] n = 67 -> "C" [] OTHER -> "?"

\* makeString: the bytes named by the bits, non-printable ones left out
RECURSIVE makeString(_)
makeString(bits) ==
    IF bits = <<>> THEN <<>>
    ELSE LET n == Atoi(Head(bits)) % 256 IN
         (IF IsPrint(n) THEN <<Chr(n)>> ELSE <<>>) \o makeString(Tail(bits))

\* the loop that ends at a length that runs past the end, with no word for it
RECURSIVE oidWords_StopsAtOverrun(_, _)
oidWords_StopsAtOverrun(bits, i) ==
    IF i >= Len(bits) THEN <<>>
    ELSE LET cnt == Atoi(bits[i + 1])
             end == i + cnt + 1
         IN  IF i >= end \/ end > Len(bits) THEN <<>>
             ELSE <<makeString(SubSeq(bits, i + 2, end))>>
                  \o oidWords_StopsAtOverrun(bits, i + cnt + 1)

\* the loop of oidStrings from the 0-based position i on
RECURSIVE oidWords(_, _)
oidWords(bits, i) ==
    IF i >= Len(bits) THEN <<>>
    ELSE LET cnt == Atoi(bits[i + 1])
             end == i + cnt + 1
         IN  IF i >= end THEN <<>>
             ELSE <<makeString(SubSeq(bits, i + 2, IF end > Len(bits) THEN Len(bits) ELSE end))>>
                  \o oidWords(bits, i + cnt + 1)

oidStrings(in) == oidWords(Split(in), 0)

-----------------------------------------------------------------------------
(* bulkColumns: pduTags and the walk handler *)

\* b's entries laid over a's
Merge(a, b) == [k \in DOMAIN a \cup DOMAIN b |-> IF k \in DOMAIN b THEN b[k] ELSE a[k]]

One(k, v) == [x \in {k} |-> v]

\* t[k] = lookup[suffix] when the suffix is a key of lookup with a value that
\* is not empty
Column(k, lookup, suffix) ==
    IF suffix \in DOMAIN lookup /\ Len(lookup[suffix]) > 0 THEN One(k, lookup[suffix]) ELSE Empty

PrefixIf == <<"i", "f">>

\* the tags of the words of the suffix
GroupTags(suffix) ==
    LET group == oidStrings(suffix) IN
    Merge(Merge(IF Len(group) > 0 /\ Len(group[1]) > 0 THEN One("grouping", group[1]) ELSE Empty,
                IF Len(group) > 1 /\ Len(group[2]) > 0 THEN One("member", group[2]) ELSE Empty),
          IF Len(group) > 3 /\ Len(group[2]) > 0 THEN One("element", group[3]) ELSE Empty)

\* the composer's own tags, before crit.Tags are laid over them
ComposedTags(c, cache, name, suffix) ==
    LET ifTags == IF IsPrefixOf(PrefixIf, name) /\ Len(suffix) > 0
                  THEN Merge(Merge(Column("column", cache.columns, suffix),
                                   Column("alias", cache.aliases, suffix)),
                             Column("descr", cache.descrs, suffix))
                  ELSE Empty
        indexTags == IF Len(c.Index) > 0 /\ Len(suffix) > 0
                     THEN Column("index", cache.suffixes, suffix)
                     ELSE Empty
        suffixTags == IF c.Suffix THEN One("suffix", suffix) ELSE GroupTags(suffix)
    IN  Merge(Merge(ifTags, indexTags), suffixTags)

\* an interface that the device reports as down is left out as well
Suppressed_WhenDown(cache, name, suffix) ==
    /\ IsPrefixOf(PrefixIf, name) /\ Len(suffix) > 0
    /\ (suffix \notin DOMAIN cache.enabled \/ ~cache.enabled[suffix])

\* "if _, ok := enabled[suffix]; !ok { return nil, false }", for the names
\* starting with "if" that come with a suffix
Suppressed(cache, name, suffix) ==
    /\ IsPrefixOf(PrefixIf, name) /\ Len(suffix) > 0
    /\ suffix \notin DOMAIN cache.enabled

\* the composer's tags are laid over crit.Tags
pduTags_ComposerWins(c, cache, name, suffix) ==
    IF Suppressed(cache, name, suffix)
    THEN [ok |-> FALSE, t |-> Empty]
    ELSE [ok |-> TRUE, t |-> Merge(c.Tags, ComposedTags(c, cache, name, suffix))]

\* pduTags(name, suffix): [ok, t]
pduTags(c, cache, name, suffix) ==
    IF Suppressed(cache, name, suffix)
    THEN [ok |-> FALSE, t |-> Empty]
    ELSE [ok |-> TRUE, t |-> Merge(ComposedTags(c, cache, name, suffix), c.Tags)]

NoSample == [name |-> <<>>, tags |-> Empty, value |-> [type |-> "none"]]

\* a value that resolves to nothing is an error of the walk
Unresolved_Aborts(c, pdu, senderErr) ==
    [outcome |-> "no name", ret |-> "cannot find name for OID", panic |-> FALSE,
     sample |-> NoSample]

\* "we can't process further, so just send it along": the value goes to the
\* Sender as it came, under its identifier, with a copy of crit.Tags
Unresolved(c, pdu, senderErr) ==
    [outcome |-> "raw", ret |-> senderErr, panic |-> FALSE,
     sample |-> [name |-> pdu.Name, tags |-> c.Tags, value |-> Raw(pdu)]]

\* One call of the handler that bulkColumns returns, for a session with the
\* identifier table (rtree, oidBase), the Criteria c and the column caches;
\* senderErr is what the Sender answers if it is called.
\* Result: [outcome, ret, sample, panic].
WalkHandler(tree, base, c, cache, pdu, senderErr) ==
    LET found == LongestPrefix(tree, pdu.Name)
        subOID == found.sub
        filter == regexpFilter(c.Regexps, c.Keep)
        name == IF found.v \in DOMAIN c.Rename THEN c.Rename[found.v] ELSE found.v
        suffix == SuffixOf(subOID, pdu.Name)
        tags == pduTags(c, cache, name, suffix)
        t == IF c.OIDTag THEN Merge(tags.t, One("oid", pdu.Name)) ELSE tags.t
        read == ReadPdu(base[subOID].Fn, pdu)
    IN  IF ~found.ok
        THEN Unresolved(c, pdu, senderErr)
        ELSE IF subOID \notin DOMAIN base
        THEN [outcome |-> "no info", ret |-> "cannot find info for OID", panic |-> FALSE,
              sample |-> NoSample]
        ELSE IF Filtered(filter, found.v)
        THEN [outcome |-> "filtered", ret |-> Nil, panic |-> FALSE, sample |-> NoSample]
        ELSE IF ~tags.ok
        THEN [outcome |-> "suppressed", ret |-> Nil, panic |-> FALSE, sample |-> NoSample]
        ELSE IF read.panic
        THEN [outcome |-> "panic", ret |-> Nil, panic |-> TRUE, sample |-> NoSample]
        ELSE IF read.err # Nil
        THEN [outcome |-> "bad bulk name", ret |-> Nil, panic |-> FALSE, sample |-> NoSample]
        ELSE [outcome |-> "sent", ret |-> senderErr, panic |-> FALSE,
              sample |-> [name |-> name, tags |-> t, value |-> read.value]]

-----------------------------------------------------------------------------
(* One walk of a session: walk(oid, walker), then fn(err) *)

Target == <<"s", "w", "1">>
Caller == <<"m", "i", "n", "e">>

\* setup: crit.Tags["host"] = client.Target
SetupTags(tags, target) == Merge(tags, One("host", target))

ComposerKeys ==
    {"column", "alias", "descr", "index", "suffix", "grouping", "member", "element",
     "oid", "host"}

\* the static tags of a caller who sets every key the composer knows, and one more
AllCallerTags == [k \in ComposerKeys \cup {"site"} |-> Caller]

Sfx5 == <<"5">>
Sfx6 == <<"6">>
Sfx7 == <<"7">>
SfxAB == <<"1", ".", "6", "5", ".", "1", ".", "6", "6">>
SfxABC == <<"1", ".", "6", "5", ".", "1", ".", "6", "6", ".", "1", ".", "6", "7", ".", "0">>

\* the caches after columnInfo: interface 5 is up, interface 6 is down
FullCache ==
    [enabled |-> [x \in {Sfx5, Sfx6} |-> x = Sfx5],
     columns |-> [x \in {Sfx5, Sfx6} |-> IF x = Sfx5 THEN <<"e", "t", "h", "0">> ELSE <<>>],
     aliases |-> [x \in {Sfx5} |-> <<"u", "p", "l", "i", "n", "k">>],
     descrs |-> [x \in {Sfx5} |-> <<"p", "o", "r", "t">>],
     suffixes |-> [x \in {SfxAB} |-> <<"r", "o", "w">>]]

\* the caches of a device that reports no interface
EmptyCache ==
    [enabled |-> Empty, columns |-> Empty, aliases |-> Empty, descrs |-> Empty,
     suffixes |-> Empty]

Caches == {FullCache, EmptyCache}

\* Rename, Regexps, Keep and Index of the Criteria tried
CritShapes ==
    {[Rename |-> Empty, Regexps |-> <<>>, Keep |-> FALSE, Index |-> <<>>],
     [Rename |-> One(NameIfStatus, <<"s", "t", "a", "t", "e">>),
      Regexps |-> <<Pattern(FALSE, <<"I", "n">>, TRUE)>>, Keep |-> FALSE, Index |-> <<>>],
     [Rename |-> Empty, Regexps |-> <<>>, Keep |-> FALSE, Index |-> <<".", "2", ".", "9">>]}

\* the Criteria as the handler holds it, for the caller's static tags
HandlerCrit(shape, tags, oidTag, sfx) ==
    [Rename |-> shape.Rename, Regexps |-> shape.Regexps, Keep |-> shape.Keep,
     Index |-> shape.Index, Tags |-> SetupTags(tags, Target),
     OIDTag |-> oidTag, Suffix |-> sfx]

\* the values a device can return
Pdu(name, type, value) == [Name |-> name, Type |-> type, Value |-> value]

Pdus ==
    {Pdu(OidIfStatus \o <<".">> \o Sfx5, "Integer", [type |-> "int", n |-> 1]),
     Pdu(OidIfStatus \o <<".">> \o Sfx6, "Integer", [type |-> "int", n |-> 2]),
     Pdu(OidIfStatus \o <<".">> \o Sfx5, "Integer", [type |-> "int", n |-> 7]),
     Pdu(OidIfIn \o <<".">> \o Sfx7, "Counter32", [type |-> "uint", n |-> 10]),
     Pdu(OidIfStatus \o <<".">> \o Sfx5, "Gauge32", [type |-> "uint", n |-> 1]),
     Pdu(OidIfIn \o <<".">> \o Sfx5, "Counter32", [type |-> "uint", n |-> 1000]),
     Pdu(OidIfIn \o <<".">> \o Sfx5, "Counter32", [type |-> "string", s |-> "n/a"]),
     Pdu(OidGroups \o <<".">> \o SfxAB, "Gauge32", [type |-> "uint", n |-> 3]),
     Pdu(OidGroups \o <<".">> \o SfxABC, "Gauge32", [type |-> "uint", n |-> 4]),
     Pdu(<<".", "3", ".", "7">>, "Integer", [type |-> "int", n |-> 9])}

NoPdu == Pdu(<<>>, "none", [type |-> "none"])

NoHandlerCall ==
    [pdu |-> NoPdu, found |-> FALSE, sub |-> <<>>, suffix |-> <<>>,
     outcome |-> NotCalled, ret |-> Nil, panic |-> FALSE, sample |-> NoSample]

\* the walk hands the next value to the handler; an error of the handler ends
\* the walk, which returns it, and Poller passes it to fn; a panic of the
\* handler is recovered nowhere
HandlePdu ==
    /\ cyc.state = "Walking"
    /\ cyc.n < MaxBulk
    /\ \E pdu \in Pdus :
       \E e \in SendErrs :
        LET r == WalkHandler(hcfg.rtree, hcfg.oidBase, hcfg.crit, hcfg.cache, pdu, e)
            found == LongestPrefix(hcfg.rtree, pdu.Name)
        IN  /\ hlast' = [pdu |-> pdu, found |-> found.ok, sub |-> found.sub,
                         suffix |-> SuffixOf(found.sub, pdu.Name),
                         outcome |-> r.outcome, ret |-> r.ret, panic |-> r.panic,
                         sample |-> r.sample]
            /\ cyc' = IF r.panic
                      THEN [cyc EXCEPT !.state = "Panicked", !.n = cyc.n + 1]
                      ELSE IF r.ret # Nil
                      THEN [state |-> "Done", n |-> cyc.n + 1, err |-> r.ret, fnArg |-> r.ret]
                      ELSE [cyc EXCEPT !.n = cyc.n + 1]
    /\ UNCHANGED hcfg
    /\ UNCHANGED notWalkVars

\* the device has no more values, or a request fails: the walk returns and
\* Poller passes the result to fn
WalkReturns ==
    /\ cyc.state = "Walking"
    /\ \E e \in {Nil, "request error"} :
        cyc' = [cyc EXCEPT !.state = "Done", !.err = e, !.fnArg = e]
    /\ UNCHANGED <<hcfg, hlast>>
    /\ UNCHANGED notWalkVars

-----------------------------------------------------------------------------
(* setup: newClient, getOID and the first columnInfo of bulkColumns *)

\* the Profiles tried: the v3 fields as present or valid, or not
NoV3 ==
    [SecLevel |-> "", AuthUser |-> FALSE, AuthPass |-> FALSE, AuthProtoOk |-> FALSE,
     PrivPass |-> FALSE, PrivProtoOk |-> FALSE]

Profile(version, v3) ==
    [Version |-> version, SecLevel |-> v3.SecLevel, AuthUser |-> v3.AuthUser,
     AuthPass |-> v3.AuthPass, AuthProtoOk |-> v3.AuthProtoOk,
     PrivPass |-> v3.PrivPass, PrivProtoOk |-> v3.PrivProtoOk]

\* authCheck
authCheck(p) ==
    IF ~p.AuthPass THEN "no SNMPv3 password"
    ELSE IF ~p.AuthProtoOk THEN "invalid auth protocol"
    ELSE Nil

\* v3auth
v3auth(p) ==
    IF ~p.AuthUser THEN "username not found for snmpv3 host"
    ELSE IF p.SecLevel = "NoAuthNoPriv" THEN Nil
    ELSE IF p.SecLevel = "AuthNoPriv" THEN authCheck(p)
    ELSE IF p.SecLevel = "AuthPriv"
    THEN IF ~p.PrivPass THEN "missing snmp v3 privacy password"
         ELSE IF ~p.PrivProtoOk THEN "invalid in Privcy Protocol"
         ELSE authCheck(p)
    ELSE "invalid security level"

\* newClient(p): [err, connected], connectErr being what client.Connect() answers
newClient(p, connectErr) ==
    IF p.Version \in {"1", "", "2", "2c"}
    THEN [err |-> connectErr, connected |-> connectErr = Nil]
    ELSE IF p.Version = "3"
    THEN IF v3auth(p) # Nil THEN [err |-> v3auth(p), connected |-> FALSE]
         ELSE [err |-> connectErr, connected |-> connectErr = Nil]
    ELSE [err |-> "invalid snmp version", connected |-> FALSE]

\* lookupOID, as oidReader and loadOIDs fill it
lookupOID == [n \in {d.Name : d \in Definitions} |-> (CHOOSE d \in Definitions : d.Name = n).OID]

\* getOID(oid): [err, oid]
getOID(oid) ==
    IF IsPrefixOf(<<".">>, oid) THEN [err |-> Nil, oid |-> oid]
    ELSE IF oid \in DOMAIN lookupOID THEN [err |-> Nil, oid |-> lookupOID[oid]]
    ELSE [err |-> "no OID found", oid |-> oid]

\* the mib-2 subtree, shortened as the identifiers are
Mib2 == OidIfEntry

\* the bulk lookups one columnInfo makes: ifOperStatus, ifName, ifAlias and
\* ifDescr under mib-2, else the index if there is one
Lookups(oid, index) ==
    IF IsPrefixOf(Mib2, oid) THEN 4 ELSE IF Len(index) > 0 THEN 1 ELSE 0

\* setup(p, crit, sender, logger) for the Criteria's OID, Index and Regexps,
\* given what Connect and the first columnInfo answer: [err, connected, oid, index]
setup(p, c, env) ==
    LET client == newClient(p, env.Connect)
        oid == getOID(c.OID)
        index == IF Len(c.Index) > 0 THEN getOID(c.Index) ELSE [err |-> Nil, oid |-> <<>>]
        filter == regexpFilter(c.Regexps, FALSE)
        built == IF Lookups(oid.oid, index.oid) > 0 THEN env.ColumnInfo ELSE Nil
        r(e) == [err |-> e, connected |-> client.connected, oid |-> oid.oid, index |-> index.oid]
    IN  IF client.err # Nil THEN r(client.err)
        ELSE IF oid.err # Nil THEN r(oid.err)
        ELSE IF index.err # Nil THEN r(index.err)
        ELSE IF filter.err # Nil THEN r(filter.err)
        ELSE r(built)

\* what setup answers for session s
Setup(s) == setup(prof[s].p, prof[s].c, prof[s].env)

-----------------------------------------------------------------------------
(* Poller *)

\* the refresh goroutine of bulkColumns: not started, between two ticks, or
\* inside columnInfo with a bulk lookup outstanding and left lookups to go
NoRefresh == [pc |-> "None", left |-> 0, n |-> 0, err |-> Nil, cache |-> <<>>]

\* the maps of bulkColumns after the columnInfo() of setup: each of its
\* lookups has filled its map, in run 0
Built(k) == [i \in 1..k |-> 0]

\* the refresh goroutine as bulkColumns leaves it for session s
Refresher(s) ==
    [NoRefresh EXCEPT !.pc = IF prof[s].c.Refresh > 0 THEN "Waiting" ELSE "None",
                      !.cache = Built(Lookups(Setup(s).oid, Setup(s).index))]

\* setup answers an error: Poller returns it before the loop, before the
\* deferred Close is registered
StartFails(s) ==
    /\ pc[s] = "Idle"
    /\ Setup(s).err # Nil
    /\ pc' = [pc EXCEPT ![s] = "Failed"]
    /\ ret' = [ret EXCEPT ![s] = Setup(s).err]
    /\ connOpen' = [connOpen EXCEPT ![s] = Setup(s).connected]
    /\ UNCHANGED <<crit, count, delay, mean, latency, sinceTimer, clk, err, walks,
                   fnArg, done, device>>
    /\ UNCHANGED procVars
    /\ UNCHANGED notPollVars

\* the start that goes on whatever setup answered
Start_IgnoringSetup(s) ==
    /\ pc[s] = "Idle"
    /\ pc' = [pc EXCEPT ![s] = "Evaluating"]
    /\ rfr' = [rfr EXCEPT ![s] = Refresher(s)]
    /\ connOpen' = [connOpen EXCEPT ![s] = TRUE]
    /\ delay' = [delay EXCEPT ![s] = crit[s].Freq]
    /\ clk' = [clk EXCEPT ![s] = Tick(crit[s].Freq)]
    /\ count' = [count EXCEPT ![s] = crit[s].Count]
    /\ UNCHANGED <<crit, mean, latency, sinceTimer, err, ret, walks, fnArg,
                   done, device>>
    /\ UNCHANGED <<prof, quits, panicked>>
    /\ UNCHANGED notPollVars

\* setup succeeded: the client is connected, the refresh goroutine is started
\* if Refresh > 0, the loop is entered
Start(s) ==
    /\ pc[s] = "Idle"
    /\ Setup(s).err = Nil
    /\ pc' = [pc EXCEPT ![s] = "Evaluating"]
    /\ rfr' = [rfr EXCEPT ![s] = Refresher(s)]
    /\ connOpen' = [connOpen EXCEPT ![s] = TRUE]
    /\ delay' = [delay EXCEPT ![s] = crit[s].Freq]
    /\ clk' = [clk EXCEPT ![s] = Tick(crit[s].Freq)]
    /\ count' = [count EXCEPT ![s] = crit[s].Count]
    /\ UNCHANGED <<crit, mean, latency, sinceTimer, err, ret, walks, fnArg,
                   done, device>>
    /\ UNCHANGED <<prof, quits, panicked>>
    /\ UNCHANGED notPollVars

\* mean := avg() / 1000, then raise or lower the delay
Evaluate(s) ==
    /\ pc[s] = "Evaluating"
    /\ LET m == avg(latency[s]) \div MsPerSec IN
        /\ mean' = [mean EXCEPT ![s] = m]
        /\ sinceTimer' = [sinceTimer EXCEPT ![s] = 0]
        /\ IF Raise(m, delay[s])
           THEN /\ delay' = [delay EXCEPT ![s] = RaisedDelay(m)]
                /\ clk' = [clk EXCEPT ![s] = Tick(RaisedDelay(m))]
                /\ pc' = [pc EXCEPT ![s] = "Sleeping"]
           ELSE IF Lower(m, delay[s], crit[s].Freq)
           THEN /\ delay' = [delay EXCEPT ![s] = LoweredDelay(delay[s])]
                /\ clk' = [clk EXCEPT ![s] = Tick(LoweredDelay(delay[s]))]
                /\ pc' = [pc EXCEPT ![s] = "Walking"]
           ELSE /\ pc' = [pc EXCEPT ![s] = "Walking"]
                /\ UNCHANGED <<delay, clk>>
    /\ UNCHANGED <<crit, count, latency, err, ret, connOpen, walks, fnArg,
                   done, device>>
    /\ UNCHANGED procVars
    /\ UNCHANGED notPollVars

\* time.Sleep(delay - mean): "pause to sync to new period"
Sleep(s) ==
    /\ pc[s] = "Sleeping"
    /\ LET dt == (delay[s] - mean[s]) * MsPerSec IN
        /\ sinceTimer' = [sinceTimer EXCEPT ![s] = dt]
        /\ clk' = [clk EXCEPT ![s] = Elapse(clk[s], dt)]
    /\ pc' = [pc EXCEPT ![s] = "Walking"]
    /\ UNCHANGED <<crit, count, delay, mean, latency, err, ret, connOpen, walks,
                   fnArg, done, device>>
    /\ UNCHANGED procVars
    /\ UNCHANGED notPollVars

\* a failed walk ends the session: "return err" right after the walk
WalkFinish_ReturnOnError(s) ==
    /\ pc[s] = "Walking"
    /\ \E n \in device[s].pdus :
       \E lats \in [1..n -> device[s].lats] :
       \E e \in device[s].errs :
        /\ latency' = [latency EXCEPT ![s] = walker(latency[s], sinceTimer[s], lats)]
        /\ clk' = [clk EXCEPT ![s] = Elapse(clk[s], SumSeq(lats))]
        /\ err' = [err EXCEPT ![s] = e]
        /\ IF crit[s].HasFn
           THEN fnArg' = [fnArg EXCEPT ![s] = e]
           ELSE UNCHANGED fnArg
        /\ IF e # Nil
           THEN /\ ret' = [ret EXCEPT ![s] = e]
                /\ connOpen' = [connOpen EXCEPT ![s] = FALSE]
                /\ pc' = [pc EXCEPT ![s] = "Terminated"]
                /\ UNCHANGED count
           ELSE IF count[s] > 0
           THEN /\ count' = [count EXCEPT ![s] = count[s] - 1]
                /\ IF count[s] - 1 = 0
                   THEN /\ ret' = [ret EXCEPT ![s] = e]
                        /\ connOpen' = [connOpen EXCEPT ![s] = FALSE]
                        /\ pc' = [pc EXCEPT ![s] = "Terminated"]
                   ELSE /\ pc' = [pc EXCEPT ![s] = "Waiting"]
                        /\ UNCHANGED <<ret, connOpen>>
           ELSE /\ pc' = [pc EXCEPT ![s] = "Waiting"]
                /\ UNCHANGED <<count, ret, connOpen>>
    /\ walks' = [walks EXCEPT ![s] = walks[s] + 1]
    /\ sinceTimer' = [sinceTimer EXCEPT ![s] = 0]
    /\ UNCHANGED <<crit, delay, mean, done, device>>
    /\ UNCHANGED procVars
    /\ UNCHANGED notPollVars

\* walk(oid, walker) returns, then fn(err), then the Count bookkeeping
WalkFinish(s) ==
    /\ pc[s] = "Walking"
    /\ \E n \in device[s].pdus :
       \E lats \in [1..n -> device[s].lats] :
       \E e \in device[s].errs :
        /\ latency' = [latency EXCEPT ![s] = walker(latency[s], sinceTimer[s], lats)]
        /\ clk' = [clk EXCEPT ![s] = Elapse(clk[s], SumSeq(lats))]
        /\ err' = [err EXCEPT ![s] = e]
        /\ IF crit[s].HasFn
           THEN fnArg' = [fnArg EXCEPT ![s] = e]
           ELSE UNCHANGED fnArg
        /\ IF count[s] > 0
           THEN /\ count' = [count EXCEPT ![s] = count[s] - 1]
                /\ IF count[s] - 1 = 0
                   THEN /\ ret' = [ret EXCEPT ![s] = e]
                        /\ connOpen' = [connOpen EXCEPT ![s] = FALSE]
                        /\ pc' = [pc EXCEPT ![s] = "Terminated"]
                   ELSE /\ pc' = [pc EXCEPT ![s] = "Waiting"]
                        /\ UNCHANGED <<ret, connOpen>>
           ELSE /\ pc' = [pc EXCEPT ![s] = "Waiting"]
                /\ UNCHANGED <<count, ret, connOpen>>
    /\ walks' = [walks EXCEPT ![s] = walks[s] + 1]
    \* timer is not read again before the next avg() sets it
    /\ sinceTimer' = [sinceTimer EXCEPT ![s] = 0]
    /\ UNCHANGED <<crit, delay, mean, done, device>>
    /\ UNCHANGED procVars
    /\ UNCHANGED notPollVars

\* select: case <-clk: continue
TickFires(s) ==
    /\ pc[s] = "Waiting"
    /\ clk[s].buf \/ ~done
    /\ walks[s] < MaxWalks
    /\ clk' = [clk EXCEPT ![s] = Receive(clk[s])]
    /\ pc' = [pc EXCEPT ![s] = "Evaluating"]
    /\ UNCHANGED <<crit, count, delay, mean, latency, sinceTimer, err, ret, connOpen,
                   walks, fnArg, done, device>>
    /\ UNCHANGED procVars
    /\ UNCHANGED notPollVars

\* the return without the deferred client.Conn.Close()
ObserveDone_NoClose(s) ==
    /\ pc[s] = "Waiting"
    /\ done
    /\ ret' = [ret EXCEPT ![s] = Nil]
    /\ pc' = [pc EXCEPT ![s] = "Terminated"]
    /\ UNCHANGED <<crit, count, delay, mean, latency, sinceTimer, clk, err, walks,
                   fnArg, done, device, connOpen>>
    /\ UNCHANGED procVars
    /\ UNCHANGED notPollVars

\* select: case <-done: return nil (and the deferred client.Conn.Close())
ObserveDone(s) ==
    /\ pc[s] = "Waiting"
    /\ done
    /\ ret' = [ret EXCEPT ![s] = Nil]
    /\ connOpen' = [connOpen EXCEPT ![s] = FALSE]
    /\ pc' = [pc EXCEPT ![s] = "Terminated"]
    /\ UNCHANGED <<crit, count, delay, mean, latency, sinceTimer, clk, err, walks,
                   fnArg, done, device>>
    /\ UNCHANGED procVars
    /\ UNCHANGED notPollVars

\* Quit: close(done)
Quit ==
    /\ ~done
    /\ done' = TRUE
    /\ quits' = quits + 1
    /\ UNCHANGED <<pc, crit, count, delay, mean, latency, sinceTimer, clk, err, ret,
                   connOpen, walks, fnArg, device>>
    /\ UNCHANGED <<prof, rfr, panicked>>
    /\ UNCHANGED notPollVars

\* a Quit that leaves a closed channel alone
QuitAgain_NoOp ==
    /\ done
    /\ ~panicked
    /\ quits < MaxQuits
    /\ quits' = quits + 1
    /\ UNCHANGED pollVars
    /\ UNCHANGED <<prof, rfr, panicked>>
    /\ UNCHANGED notPollVars

\* Quit once more: close of a closed channel panics, and the panic of a
\* goroutine nobody recovers ends the process with all its sessions
QuitAgain ==
    /\ done
    /\ ~panicked
    /\ quits < MaxQuits
    /\ quits' = quits + 1
    /\ panicked' = TRUE
    /\ pc' = [s \in Sessions |-> "Crashed"]
    /\ rfr' = [s \in Sessions |-> [rfr[s] EXCEPT !.pc = "Crashed"]]
    /\ UNCHANGED <<crit, count, delay, mean, latency, sinceTimer, clk, err, ret,
                   connOpen, walks, fnArg, done, device>>
    /\ UNCHANGED prof
    /\ UNCHANGED notPollVars

\* the refresh ticker fires: columnInfo() starts and issues its first bulk
\* lookup on the session's client, if it has any to make
RefreshTick(s) ==
    /\ rfr[s].pc = "Waiting"
    /\ rfr[s].n < MaxRefresh
    /\ LET k == Lookups(Setup(s).oid, Setup(s).index) IN
        rfr' = [rfr EXCEPT ![s] = IF k > 0
                                  THEN [rfr[s] EXCEPT !.pc = "Requesting", !.left = k,
                                                      !.n = rfr[s].n + 1]
                                  ELSE [rfr[s] EXCEPT !.n = rfr[s].n + 1, !.err = Nil]]
    /\ UNCHANGED pollVars
    /\ UNCHANGED <<prof, quits, panicked>>
    /\ UNCHANGED notPollVars

\* the lookup columnInfo() is at: the first is ifOperStatus or the index
Current(s) == Lookups(Setup(s).oid, Setup(s).index) - rfr[s].left + 1

\* the refresh that loses the maps when a lookup fails
Replied_DropsCache(s, e, r) ==
    IF e # Nil
    THEN [rfr[s] EXCEPT !.pc = "Waiting", !.left = 0, !.err = e, !.cache = <<>>]
    ELSE IF rfr[s].left = 1
    THEN [rfr[s] EXCEPT !.pc = "Waiting", !.left = 0, !.err = e, !.cache[Current(s)] = r]
    ELSE [rfr[s] EXCEPT !.left = rfr[s].left - 1, !.cache[Current(s)] = r]

\* the refresh goroutine after the outstanding lookup answered e: the
\* callbacks of the lookup have written what it returned into its map (r is
\* the run whose entries the map now holds); an error ends this columnInfo()
\* and is logged, else the next lookup is issued, if any
Replied(s, e, r) ==
    LET wrote == [rfr[s] EXCEPT !.cache[Current(s)] = r] IN
    IF e # Nil \/ rfr[s].left = 1
    THEN [wrote EXCEPT !.pc = "Waiting", !.left = 0, !.err = e]
    ELSE [wrote EXCEPT !.left = rfr[s].left - 1]

\* the outstanding lookup of columnInfo() returns: a lookup that fails may
\* have written some of its entries before
RefreshReply(s) ==
    /\ rfr[s].pc = "Requesting"
    /\ \E e \in {Nil, "request error"} :
        \E r \in (IF e = Nil THEN {rfr[s].n} ELSE {rfr[s].n, rfr[s].cache[Current(s)]}) :
            rfr' = [rfr EXCEPT ![s] = Replied(s, e, r)]
    /\ UNCHANGED pollVars
    /\ UNCHANGED <<prof, quits, panicked>>
    /\ UNCHANGED notPollVars

-----------------------------------------------------------------------------
(* SplitSender over a StripSender: one tag map, passed to both senders *)

\* the tags a StripSender deletes
Stripped(taglist) == {taglist[i] : i \in 1..Len(taglist)}

\* StripSender: "delete(tags, tag)" for each tag of the list, on the map the
\* caller passed; the result is that map as the wrapped sender gets it
StripSender(tags, taglist) == [k \in DOMAIN tags \ Stripped(taglist) |-> tags[k]]

ColumnTags(oid) == Merge(Tags(oid), One("column", "eth0"))

FanSamples ==
    [name : {"octets", "ifName"}, tags : {Tags(".1.1"), ColumnTags(".1.2")},
     value : {[type |-> "uint64", n |-> 1000], [type |-> "string", s |-> "eth0"]},
     ts : {Stamp(10)}]

TagLists == {<<>>, <<"oid">>, <<"column">>, <<"oid", "host">>}

NoFan == [passed |-> NoSample, taglist |-> <<>>, calls |-> <<>>, ret |-> Nil]

InitFan == fan = NoFan

\* One call of the Sender SplitSender(StripSender(s1, taglist), s2) returns:
\* s1 is called, behind the StripSender, and then s2, each with the map "tags"
\* of the caller, which is one map: what the StripSender deleted from it
\* before s1 ran is gone from it when s2 runs.
FanSend ==
    /\ \E smp \in FanSamples :
       \E taglist \in TagLists :
       \E err1 \in SendErrs :
       \E err2 \in {Nil, "s2 failed"} :
        LET tags == StripSender(smp.tags, taglist) IN
        fan' = [passed |-> smp,
                taglist |-> taglist,
                calls |-> <<[to |-> "s1", got |-> [smp EXCEPT !.tags = tags], err |-> err1],
                            [to |-> "s2", got |-> [smp EXCEPT !.tags = tags], err |-> err2]>>,
                ret |-> SplitSender(err1, err2)]
    /\ UNCHANGED notFanVars

-----------------------------------------------------------------------------
(* oidReader: the MibInfo of LoadMibs go into the tables *)

\* the name snmptranslate prints: MODULE::name
Qualified(mib, short) == mib \o <<":", ":">> \o short

\* strings.Index(s, "::"): the 0-based position of the first "::", -1 if none
Index(s) ==
    LET at == {i \in 1..(Len(s) - 1) : s[i] = ":" /\ s[i + 1] = ":"} IN
    IF at = {} THEN -1 ELSE (CHOOSE i \in at : \A j \in at : i <= j) - 1

\* every definition takes the short name, whoever has it
Claimed_Never(lookup, name) == FALSE

\* "if o, ok := lookupOID[name]; ok"
Claimed(lookup, name) == name \in DOMAIN lookup

\* oidReader(m) on the maps t: [lookupOID, dupeNames, oidBase, rtree, panic];
\* m.Name[index:] panics for a name without "::" (index -1)
oidReader(t, m) ==
    LET at == Index(m.Name)
        index == IF at > 0 THEN at + 2 ELSE at
        oid == IF m.OID[1] # "." THEN <<".">> \o m.OID ELSE m.OID
    IN  IF index < 0 THEN [t EXCEPT !.panic = TRUE]
        ELSE
        LET name == SubSeq(m.Name, index + 1, Len(m.Name))
            dupe == Claimed(t.lookupOID, name)
        IN  [lookupOID |-> IF dupe THEN t.lookupOID ELSE Merge(t.lookupOID, One(name, oid)),
             dupeNames |-> IF dupe THEN Merge(t.dupeNames, One(name, t.lookupOID[name]))
                           ELSE t.dupeNames,
             oidBase |-> Merge(t.oidBase,
                               One(oid, [Name |-> m.Name,
                                         Index |-> IF dupe THEN 0 ELSE index,
                                         Fn |-> m.Fn])),
             rtree |-> Merge(t.rtree, One(oid, IF dupe THEN m.Name ELSE name)),
             panic |-> FALSE]

MaxDefs == 3        \* MibInfo inserted into the tables

\* the MibInfo of two modules that both define "a" and "b"; snmptranslate
\* prints identifiers with or without the leading dot
MibInfos ==
    {[Name |-> Qualified(mib, short), OID |-> oid, Fn |-> [kind |-> "pduType"],
      mib |-> mib, short |-> short] :
        mib \in {<<"M">>, <<"N", "2">>},
        short \in {<<"a">>, <<"b">>},
        oid \in {<<".", "1">>, <<"2">>, <<".", "1", ".", "1">>}}

NoMaps == [lookupOID |-> Empty, dupeNames |-> Empty, oidBase |-> Empty,
           rtree |-> Empty, panic |-> FALSE]

InitTable == tbl = [maps |-> NoMaps, log |-> <<>>]

\* the reader goroutine of oidTranslate calls fn(m) for the next MibInfo
Insert ==
    /\ Len(tbl.log) < MaxDefs
    /\ ~tbl.maps.panic
    /\ \E m \in MibInfos :
        tbl' = [maps |-> oidReader(tbl.maps, m), log |-> Append(tbl.log, m)]
    /\ UNCHANGED notTableVars

-----------------------------------------------------------------------------
(* The decoders applied to arguments of every shape *)

MaxComps == 4       \* components of a suffix that is no list of words
MaxWordLen == 2     \* bytes of one word of a suffix
MaxBytes == 2       \* bytes of a BITS value

\* pduTags names four words (multiName)
MaxWords == 4

\* strconv.Itoa for the lengths and bytes of a suffix
RECURSIVE Itoa(_)
Itoa(n) == IF n < 10 THEN <<Digits[n + 1]>> ELSE Itoa(n \div 10) \o <<Digits[(n % 10) + 1]>>

\* the byte of a character of a word
Ord(c) == CASE c = "A" -> 65 [] c = "B" -> 66 [] c = "C" -> 67

\* the components of a word: its length and its bytes, or any length n
RECURSIVE Octets(_)
Octets(w) == IF w = <<>> THEN <<>> ELSE <<".">> \o Itoa(Ord(Head(w))) \o Octets(Tail(w))

Prefixed(n, w) == Itoa(n) \o Octets(w)

\* the suffix of a list of words, each behind its length
RECURSIVE Encode(_)
Encode(ws) ==
    IF ws = <<>> THEN <<>>
    ELSE IF Len(ws) = 1 THEN Prefixed(Len(ws[1]), ws[1])
    ELSE Prefixed(Len(ws[1]), ws[1]) \o <<".">> \o Encode(Tail(ws))

Words == SeqsUpTo({"A", "B"}, MaxWordLen)

\* the lists of one to four words: a word of any length first or last, the
\* other words of one byte at most
ShortWords == {<<>>, <<"A">>, <<"B">>}

WordLists ==
    {<<w>> \o rest : w \in Words, rest \in SeqsUpTo(ShortWords, MaxWords - 1)}
    \cup {Append(rest, w) : w \in Words, rest \in SeqsUpTo(ShortWords, MaxWords - 1)}

Components == {<<"0">>, <<"1">>, <<"2">>, <<"6", "5">>, <<"6", "6">>}

RECURSIVE Joined(_)
Joined(cs) ==
    IF cs = <<>> THEN <<>>
    ELSE IF Len(cs) = 1 THEN cs[1]
    ELSE cs[1] \o <<".">> \o Joined(Tail(cs))

\* the suffixes tried: the lists of words, the lists of words whose last
\* length is larger than what follows it (over of them missing), and any
\* components
Suffix(s, made, ws, over) == [suffix |-> s, made |-> made, words |-> ws, over |-> over]

Suffixes ==
    {Suffix(Encode(ws), "words", ws, 0) : ws \in WordLists}
    \cup {Suffix(Encode(ws) \o <<".">> \o Prefixed(Len(w) + over, w), "overrun",
                 Append(ws, w), over) :
            ws \in SeqsUpTo(Words, 1) \ {<<>>}, w \in Words, over \in {1, 2}}
    \cup {Suffix(Prefixed(Len(w) + over, w), "overrun", <<w>>, over) :
            w \in Words, over \in {1, 2}}
    \cup {Suffix(Joined(cs), "raw", <<>>, 0) : cs \in SeqsUpTo(Components, MaxComps)}

\* a BITS value and the labels of its SYNTAX
Bytes == {0, 1, 64, 128, 129, 192}

Labels ==
    {[i \in {0, 1, 7, 8} |-> CASE i = 0 -> "a" [] i = 1 -> "b" [] i = 7 -> "h" [] i = 8 -> "i"],
     [i \in {0, 15} |-> IF i = 0 THEN "a" ELSE "p"],
     [i \in 0..15 |-> IF i < 8 THEN "lo" ELSE "hi"]}

BitsPdus ==
    {Pdu(OidIfStatus \o <<".">> \o Sfx5, "OctetString", [type |-> "bytes", data |-> d]) :
        d \in SeqsUpTo(Bytes, MaxBytes)}

NoDecode == [fn |-> "none", in |-> <<>>, done |-> TRUE, out |-> <<>>]

Call(fn, in) == [fn |-> fn, in |-> in, done |-> FALSE, out |-> <<>>]

Calls ==
    {Call("oidStrings", s) : s \in Suffixes}
    \cup {Call("pduTags", s) : s \in Suffixes}
    \cup {Call("bitFormatter", [m |-> m, pdu |-> pdu]) : m \in Labels, pdu \in BitsPdus}

InitDecode(calls) == fx \in calls

\* oidStrings(suffix) returns
ApplyOidStrings ==
    /\ fx.fn = "oidStrings" /\ ~fx.done
    /\ fx' = [fx EXCEPT !.done = TRUE, !.out = oidStrings(fx.in.suffix)]
    /\ UNCHANGED notDecodeVars

\* pduTags, without crit.Suffix, has put the words of the suffix into t
ApplyGroupTags ==
    /\ fx.fn = "pduTags" /\ ~fx.done
    /\ fx' = [fx EXCEPT !.done = TRUE, !.out = GroupTags(fx.in.suffix)]
    /\ UNCHANGED notDecodeVars

\* the pduReader of bitFormatter(m) returns
ApplyBitFormatter ==
    /\ fx.fn = "bitFormatter" /\ ~fx.done
    /\ fx' = [fx EXCEPT !.done = TRUE, !.out = bitFormatter(fx.in.m, fx.in.pdu)]
    /\ UNCHANGED notDecodeVars

-----------------------------------------------------------------------------

\* a device answers a walk with some number of values, each after some
\* latency, and the walk ends with some result
Devices == {[lats |-> Latencies, pdus |-> 0..MaxPdus, errs |-> WalkErrs]}

SlowDevices == {[lats |-> {100000}, pdus |-> {1}, errs |-> {Nil, "request error"}]}

Criterias == [Freq : Freqs, Count : 0..MaxCount, HasFn : BOOLEAN]

SlowCriterias == [Freq : {90}, Count : 0..MaxCount, HasFn : {TRUE}]

InitSessions(S, crits, devs) ==
    /\ pc = [s \in S |-> "Idle"]
    /\ crit \in [S -> crits]
    /\ device \in [S -> devs]
    /\ count = [s \in S |-> 0]
    /\ delay = [s \in S |-> 0]
    /\ mean = [s \in S |-> 0]
    /\ latency = [s \in S |-> NewLatency]
    /\ sinceTimer = [s \in S |-> 0]
    /\ clk = [s \in S |-> Tick(0)]
    /\ err = [s \in S |-> Nil]
    /\ ret = [s \in S |-> Running]
    /\ connOpen = [s \in S |-> FALSE]
    /\ walks = [s \in S |-> 0]
    /\ fnArg = [s \in S |-> NotCalled]
    /\ done = FALSE

\* nothing but session state is looked at
InitUnits ==
    /\ InitRing({[base |-> 0, step |-> 1]})
    /\ InitLoad({<<>>})
    /\ InitLock({FALSE}, {0})
    /\ InitShare({}, {{}})
    /\ InitFan
    /\ InitTable
    /\ InitDecode({NoDecode})

\* the process: what each session was started with, no refresh goroutine,
\* Quit not called
InitProc(S, setups) ==
    /\ prof \in [S -> setups]
    /\ rfr = [s \in S |-> NoRefresh]
    /\ quits = 0
    /\ panicked = FALSE

\* a Criteria naming its OID, Index, Regexps and Refresh
Crit(oid, index, regexps, refresh) ==
    [OID |-> oid, Index |-> index, Regexps |-> regexps, Refresh |-> refresh]

\* what Connect and the first columnInfo answer
Env(connect, columnInfo) == [Connect |-> connect, ColumnInfo |-> columnInfo]

\* a v2c session for a resolvable table, no refresh, a device that answers
GoodSetups ==
    {[p |-> Profile("2c", NoV3), c |-> Crit(NameIfEntry, <<>>, <<>>, 0), env |-> Env(Nil, Nil)]}

\* a Calc stage cooking "octets" by the given recipes, and nothing sent yet
InitSenders(recipes) ==
    /\ cook \in [{"octets"} -> recipes]
    /\ saved = Empty
    /\ seen = <<>>
    /\ out = <<>>
    /\ calcRet = Nil
    /\ answers = <<>>
    /\ split = [err1 |-> Nil, err2 |-> Nil, ret |-> Nil]

\* the stages RegexpSender builds from the given pattern lists
InitFilter(lists, keeps) ==
    /\ stage \in {RegexpSender(regexps, keep) : regexps \in lists, keep \in keeps}
    /\ fcall = NoCall

\* a handler over the given identifier tables, Criteria and caches, about to
\* get the first value of a walk
InitWalk(tables, crits, caches) ==
    /\ hcfg \in [rtree : {t.rtree : t \in tables}, oidBase : {t.oidBase : t \in tables},
                 crit : crits, cache : caches, callerTags : {Empty, AllCallerTags}]
    /\ \E t \in tables : hcfg.rtree = t.rtree /\ hcfg.oidBase = t.oidBase
    /\ hcfg.crit.Tags = SetupTags(hcfg.callerTags, Target)
    /\ cyc = [state |-> "Walking", n |-> 0, err |-> Nil, fnArg |-> NotCalled]
    /\ hlast = NoHandlerCall

\* tables loaded by LoadMibs, and one loaded by LoadOIDFile
MibTables == {[rtree |-> TreeOf(defs), oidBase |-> BaseOf(defs)] : defs \in SUBSET Definitions}

FileTables == {[rtree |-> TreeOf(Definitions), oidBase |-> Empty]}

NoTables == {[rtree |-> Empty, oidBase |-> Empty]}

HandlerCrits ==
    {HandlerCrit(shape, tags, oidTag, sfx) :
        shape \in CritShapes, tags \in {Empty, AllCallerTags},
        oidTag \in BOOLEAN, sfx \in BOOLEAN}

PlainCrits == {HandlerCrit(shape, Empty, FALSE, FALSE) : shape \in {[Rename |-> Empty, Regexps |-> <<>>, Keep |-> FALSE, Index |-> <<>>]}}

PlainRecipes == {[Rename |-> "", Orig |-> FALSE, Rate |-> FALSE]}

NoPatterns == {<<>>}

\* one session against a device of any behaviour
Init ==
    /\ InitSessions({1}, Criterias, Devices)
    /\ InitProc({1}, GoodSetups)
    /\ InitUnits
    /\ InitSenders(PlainRecipes)
    /\ InitFilter(NoPatterns, {FALSE})
    /\ InitWalk(NoTables, PlainCrits, {EmptyCache})

\* two sessions of one process, each against a slow device
TwoSessions == {1, 2}

QuitInit ==
    /\ InitSessions(TwoSessions, SlowCriterias, SlowDevices)
    /\ InitProc(TwoSessions, GoodSetups)
    /\ InitUnits
    /\ InitSenders(PlainRecipes)
    /\ InitFilter(NoPatterns, {FALSE})
    /\ InitWalk(NoTables, PlainCrits, {EmptyCache})

\* a sender pipeline on its own, no session polling
SenderInit ==
    /\ InitSessions({}, Criterias, Devices)
    /\ InitProc({}, GoodSetups)
    /\ InitUnits
    /\ InitSenders(Recipes)
    /\ InitFilter(NoPatterns, {FALSE})
    /\ InitWalk(NoTables, PlainCrits, {EmptyCache})

\* a Filter stage on its own
FilterInit ==
    /\ InitSessions({}, Criterias, Devices)
    /\ InitProc({}, GoodSetups)
    /\ InitUnits
    /\ InitSenders(PlainRecipes)
    /\ InitFilter(SeqsUpTo(Patterns, MaxPatterns), BOOLEAN)
    /\ InitWalk(NoTables, PlainCrits, {EmptyCache})

Next ==
    \/ \E s \in Sessions : Start(s)
    \/ \E s \in Sessions : Evaluate(s)
    \/ \E s \in Sessions : Sleep(s)
    \/ \E s \in Sessions : WalkFinish(s)
    \/ \E s \in Sessions : TickFires(s)
    \/ \E s \in Sessions : ObserveDone(s)
    \/ Quit

Spec == Init /\ [][Next]_vars

SenderNext == Send

SenderSpec == SenderInit /\ [][SenderNext]_vars

FilterNext == FilterSend

FilterSpec == FilterInit /\ [][FilterNext]_vars

\* one walk on its own
WalkInit ==
    /\ InitSessions({}, Criterias, Devices)
    /\ InitProc({}, GoodSetups)
    /\ InitUnits
    /\ InitSenders(PlainRecipes)
    /\ InitFilter(NoPatterns, {FALSE})
    /\ InitWalk(MibTables \cup FileTables, HandlerCrits, Caches)

WalkNext == HandlePdu \/ WalkReturns

WalkSpec == WalkInit /\ [][WalkNext]_vars

\* the Profiles tried: every version, and for v3 a valid one of each security
\* level and each way of getting one parameter wrong
V3(level, user, authPass, authProto, privPass, privProto) ==
    [SecLevel |-> level, AuthUser |-> user, AuthPass |-> authPass,
     AuthProtoOk |-> authProto, PrivPass |-> privPass, PrivProtoOk |-> privProto]

Profiles ==
    {Profile(v, NoV3) : v \in {"1", "", "2c", "4"}}
    \cup {Profile("3", v3) : v3 \in
            {V3("NoAuthNoPriv", TRUE, FALSE, FALSE, FALSE, FALSE),
             V3("AuthNoPriv", TRUE, TRUE, TRUE, FALSE, FALSE),
             V3("AuthPriv", TRUE, TRUE, TRUE, TRUE, TRUE),
             V3("NoAuthNoPriv", FALSE, FALSE, FALSE, FALSE, FALSE),
             V3("", TRUE, TRUE, TRUE, TRUE, TRUE),
             V3("AuthNoPriv", TRUE, FALSE, TRUE, FALSE, FALSE),
             V3("AuthNoPriv", TRUE, TRUE, FALSE, FALSE, FALSE),
             V3("AuthPriv", TRUE, TRUE, TRUE, FALSE, TRUE),
             V3("AuthPriv", TRUE, TRUE, TRUE, TRUE, FALSE),
             V3("AuthPriv", TRUE, FALSE, TRUE, TRUE, TRUE),
             V3("AuthPriv", TRUE, TRUE, FALSE, TRUE, TRUE)}}

\* a name no definition has
NameUnknown == <<"n", "o", "n", "e">>

\* the Criteria tried: a table under mib-2 or outside it, by name or dotted,
\* with or without an index, a pattern that does not compile, a refresh
Crits ==
    {Crit(oid, index, regexps, refresh) :
        oid \in {NameIfEntry, OidGroups, NameUnknown},
        index \in {<<>>, NameIfStatus, NameUnknown},
        regexps \in {<<>>, <<BadPattern>>},
        refresh \in {0, 1}}

Envs == {Env(c, i) : c \in {Nil, "connect error"}, i \in {Nil, "request error"}}

Setups == [p : Profiles, c : Crits, env : Envs]

\* one session started with any Profile and Criteria, against a slow device
ProcCriterias == [Freq : {90}, Count : {0, 1}, HasFn : {TRUE}]

ProcInit ==
    /\ InitSessions({1}, ProcCriterias, SlowDevices)
    /\ InitProc({1}, Setups)
    /\ InitUnits
    /\ InitSenders(PlainRecipes)
    /\ InitFilter(NoPatterns, {FALSE})
    /\ InitWalk(NoTables, PlainCrits, {EmptyCache})

ProcNext ==
    \/ \E s \in Sessions : Start(s)
    \/ \E s \in Sessions : StartFails(s)
    \/ \E s \in Sessions : Evaluate(s)
    \/ \E s \in Sessions : Sleep(s)
    \/ \E s \in Sessions : WalkFinish(s)
    \/ \E s \in Sessions : TickFires(s)
    \/ \E s \in Sessions : ObserveDone(s)
    \/ \E s \in Sessions : RefreshTick(s)
    \/ \E s \in Sessions : RefreshReply(s)
    \/ Quit
    \/ QuitAgain

ProcSpec == ProcInit /\ [][ProcNext]_vars

\* a latency history on its own
SessionsIdle ==
    /\ InitSessions({}, Criterias, Devices)
    /\ InitProc({}, GoodSetups)
    /\ InitSenders(PlainRecipes)
    /\ InitFilter(NoPatterns, {FALSE})
    /\ InitWalk(NoTables, PlainCrits, {EmptyCache})

RingInit ==
    /\ SessionsIdle
    /\ InitRing(RingDevices)
    /\ InitLoad({<<>>})
    /\ InitLock({FALSE}, {0})
    /\ InitShare({}, {{}})
    /\ InitFan
    /\ InitTable
    /\ InitDecode({NoDecode})

RingNext == Record

RingSpec == RingInit /\ [][RingNext]_vars

\* a table build on its own
LoadInit ==
    /\ SessionsIdle
    /\ InitRing({[base |-> 0, step |-> 1]})
    /\ InitLoad(Feeds)
    /\ InitLock({FALSE}, {0})
    /\ InitShare({}, {{}})
    /\ InitFan
    /\ InitTable
    /\ InitDecode({NoDecode})

LoadNext ==
    \/ \E w \in Workers : LoadSend(w)
    \/ \E w \in Workers : LoadParse(w)
    \/ LoadClose
    \/ LoadReturn
    \/ LoadApply

LoadSpec == LoadInit /\ [][LoadNext]_vars

\* the two threads of one session and its two mutexes
LockInit ==
    /\ SessionsIdle
    /\ InitRing({[base |-> 0, step |-> 1]})
    /\ InitLoad({<<>>})
    /\ InitLock(BOOLEAN, {0, 1, 4})
    /\ InitShare({}, {{}})
    /\ InitFan
    /\ InitTable
    /\ InitDecode({NoDecode})

LockNext == PollLock \/ PollInside \/ PollMove \/ RefreshStep

LockSpec == LockInit /\ [][LockNext]_vars

\* sessions against different hosts, any of them started with the same map
TagSessions == 1..3

ShareInit ==
    /\ SessionsIdle
    /\ InitRing({[base |-> 0, step |-> 1]})
    /\ InitLoad({<<>>})
    /\ InitLock({FALSE}, {0})
    /\ InitShare(TagSessions, SUBSET TagSessions)
    /\ InitFan
    /\ InitTable
    /\ InitDecode({NoDecode})

ShareNext ==
    \/ \E s \in TagSessions : ShareSetup(s)
    \/ \E s \in TagSessions : ShareSample(s)

ShareSpec == ShareInit /\ [][ShareNext]_vars

\* the units at rest
UnitsIdle ==
    /\ InitRing({[base |-> 0, step |-> 1]})
    /\ InitLoad({<<>>})
    /\ InitLock({FALSE}, {0})
    /\ InitShare({}, {{}})

\* calls of a fan-out whose first branch strips tags
FanInit ==
    /\ SessionsIdle
    /\ UnitsIdle
    /\ InitFan
    /\ InitTable
    /\ InitDecode({NoDecode})

FanNext == FanSend

FanSpec == FanInit /\ [][FanNext]_vars

\* the tables filled by oidReader, one MibInfo after the other
TableInit ==
    /\ SessionsIdle
    /\ UnitsIdle
    /\ InitFan
    /\ InitTable
    /\ InitDecode({NoDecode})

TableNext == Insert

TableSpec == TableInit /\ [][TableNext]_vars

\* one decoder applied to one argument
DecodeInit ==
    /\ SessionsIdle
    /\ UnitsIdle
    /\ InitFan
    /\ InitTable
    /\ InitDecode(Calls)

DecodeNext == ApplyOidStrings \/ ApplyGroupTags \/ ApplyBitFormatter

DecodeSpec == DecodeInit /\ [][DecodeNext]_vars

(* The transport answers or times out, a sleep ends, a tick arrives, and a   *)
(* select with several ready cases picks each of them sooner or later.       *)
Fairness ==
    \A s \in TwoSessions :
        /\ WF_vars(Evaluate(s))
        /\ WF_vars(Sleep(s))
        /\ WF_vars(WalkFinish(s))
        /\ WF_vars(TickFires(s))
        /\ SF_vars(ObserveDone(s))

QuitSpec == QuitInit /\ [][Next]_vars /\ Fairness

-----------------------------------------------------------------------------
(* Properties of the adaptive poller *)

OneSession == {1}

\* C1: the delay is never smaller than Criteria.Freq, and every increase of
\* the delay yields a whole multiple of 60 seconds and happens only when the
\* trailing average exceeds the delay it replaces.
C1_DelayFloorAndRise ==
    /\ [](\A s \in OneSession : pc[s] # "Idle" => delay[s] >= crit[s].Freq)
    /\ [][\A s \in OneSession :
            (pc[s] # "Idle" /\ delay'[s] > delay[s]) =>
                (delay'[s] % Minute = 0 /\ mean'[s] > delay[s])]_vars

\* C2: right after every Evaluating step (delay raised, lowered or kept) the
\* delay is at least the trailing average that the step used.
C2_DelayCoversMean ==
    \A s \in Sessions : pc[s] \in {"Sleeping", "Walking"} => delay[s] >= mean[s]

\* a delay of 60 under a frequency of 90 was raised to 120 and lowered again
C2_Witness ==
    \E s \in Sessions :
        pc[s] = "Walking" /\ crit[s].Freq = 90 /\ delay[s] = 60 /\ mean[s] > 0

\* C3 (as claimed): every session that terminates after Quit returns nil.
C3_AfterQuitReturnsNil ==
    [][\A s \in TwoSessions :
        (done /\ pc[s] # "Terminated" /\ pc'[s] = "Terminated") => ret'[s] = Nil]_vars

\* C3 (amended): once Quit has been called every active session reaches
\* Terminated with its transport session closed; a session that leaves
\* Waiting for Terminated has observed the signal and returns nil, and the
\* only other way out is Count reaching zero, returning the last walk's error.
C3_QuitStopsSessions ==
    /\ \A s \in TwoSessions :
        (done /\ pc[s] # "Idle") ~> (pc[s] = "Terminated" /\ ~connOpen[s])
    /\ [][\A s \in TwoSessions :
            (pc[s] # "Terminated" /\ pc'[s] = "Terminated") =>
                \/ pc[s] = "Waiting" /\ done /\ ret'[s] = Nil
                \/ pc[s] = "Walking" /\ count'[s] = 0 /\ ret'[s] = err'[s]]_vars

\* both sessions have walked, observed the signal and returned nil
C3_Witness ==
    /\ done
    /\ \A s \in Sessions : pc[s] = "Terminated" /\ ret[s] = Nil /\ walks[s] >= 1
    /\ Cardinality(Sessions) = 2

\* C4: with Count = n > 0 and no shutdown signal a terminated session has
\* performed exactly n walks, returned the n-th walk's result and closed its
\* transport session; it never walks more than n times and it does terminate;
\* with Count = 0 it terminates only on the shutdown signal.
C4_CountCycles ==
    /\ [](\A s \in TwoSessions :
            /\ (pc[s] = "Terminated" /\ ~done) =>
                    /\ crit[s].Count > 0
                    /\ walks[s] = crit[s].Count
                    /\ ret[s] = err[s]
                    /\ ~connOpen[s]
            /\ crit[s].Count > 0 => walks[s] <= crit[s].Count
            /\ (crit[s].Count = 0 /\ pc[s] = "Terminated") => (done /\ ret[s] = Nil))
    /\ \A s \in TwoSessions :
            (crit[s].Count > 0 /\ pc[s] # "Idle") ~> pc[s] = "Terminated"

\* a session with Count = 2 ended after a failed first and a failed second walk
C4_Witness ==
    \E s \in Sessions :
        /\ ~done /\ pc[s] = "Terminated"
        /\ crit[s].Count = 2 /\ walks[s] = 2 /\ ret[s] # Nil

\* C5: a walk ends in Waiting, or in Terminated when it was the last of
\* Count, whatever its result; the ErrFunc, when set, gets that result; and a
\* session terminates only from Waiting on the shutdown signal or on Count
\* reaching zero.
C5_ErrorsNeverTerminate ==
    [][\A s \in OneSession :
        /\ (pc[s] = "Walking" /\ pc'[s] # "Walking") =>
                /\ pc'[s] = IF crit[s].Count > 0 /\ walks'[s] = crit[s].Count
                            THEN "Terminated" ELSE "Waiting"
                /\ crit[s].HasFn => fnArg'[s] = err'[s]
                /\ ~crit[s].HasFn => fnArg'[s] = NotCalled
        /\ (pc[s] # "Terminated" /\ pc'[s] = "Terminated") =>
                \/ pc[s] = "Waiting" /\ done
                \/ crit[s].Count > 0 /\ walks'[s] = crit[s].Count]_vars

\* a session is in its fourth walk after a third one that failed
C5_Witness ==
    \E s \in Sessions :
        /\ pc[s] = "Walking" /\ walks[s] = 3
        /\ err[s] # Nil /\ fnArg[s] = err[s]

-----------------------------------------------------------------------------
(* Properties of the sender pipeline *)

\* the sample of the last call, and the samples the Calc stage took as
\* observations: a cooked name, an "oid" tag and a counter value
Cur == seen[Len(seen)]

IsObservation(smp) ==
    /\ smp.name \in DOMAIN cook
    /\ "oid" \in DOMAIN smp.tags
    /\ smp.value.type \in IntegerTypes

Observed == Len(seen) >= 1 /\ IsObservation(Cur)

\* positions of the earlier observations of the last sample's identifier
Earlier ==
    {i \in 1..(Len(seen) - 1) :
        IsObservation(seen[i]) /\ seen[i].tags["oid"] = Cur.tags["oid"]}

HasPrior == Earlier # {}

Prior == seen[CHOOSE i \in Earlier : \A j \in Earlier : j <= i]

\* what the last call sent besides the original sample
DerivedOut == IF cook[Cur.name].Orig THEN SubSeq(out, 1, Len(out) - 1) ELSE out

\* d is, as a number, cur - prev when cur >= prev and cur itself otherwise,
\* for the unsigned 64-bit readings cur and prev of two observations
IsResetDelta(d, curSmp, prevSmp) ==
    LET cur == ToUint64(curSmp.value.n)
        prev == ToUint64(prevSmp.value.n)
        curNotLess == cur.top > prev.top \/ (cur.top = prev.top /\ cur.off >= prev.off)
    IN  /\ d.top \in {0, 1}
        /\ d.top = 0 => d.off >= 0
        /\ d.top = 1 => d.off < 0
        /\ IF curNotLess
           THEN d.top + prev.top = cur.top /\ d.off + prev.off = cur.off
           ELSE d = cur

Elapsed == Cur.ts.Stop - Prior.ts.Stop

\* C6: under a non-rate recipe the delta sent for an observation that has a
\* prior is cur - prev when cur >= prev and exactly cur when cur < prev:
\* never negative, never a wrap-around difference.
C6_DeltaOrReset ==
    (Observed /\ ~cook[Cur.name].Rate /\ HasPrior) =>
        /\ Len(DerivedOut) = 1
        /\ DerivedOut[1].value.type = "uint64"
        /\ IsResetDelta(DerivedOut[1].value.u, Cur, Prior)

\* a counter that went down from 1500 to 1000 was sent as a delta
C6_Witness ==
    /\ Observed /\ ~cook[Cur.name].Rate /\ HasPrior
    /\ Prior.value.n = 1500 /\ Cur.value.n = 1000
    /\ Len(DerivedOut) = 1

LatestOf(oid) ==
    CHOOSE i \in 1..Len(seen) :
        /\ IsObservation(seen[i]) /\ seen[i].tags["oid"] = oid
        /\ \A j \in (i + 1)..Len(seen) :
            ~(IsObservation(seen[j]) /\ seen[j].tags["oid"] = oid)

\* C8: one baseline per identifier, that of its latest observation; a first
\* observation sends nothing derived; a derived sample is computed against
\* the most recent earlier observation of the same identifier, whatever was
\* observed of other identifiers in between, and carries the recipe's Rename
\* when set; 1000 at t=0 then 1500 at t=10 under {rename "rate", rate} sends
\* exactly one sample, "rate", of value 50.
C8_BaselinePerOid ==
    /\ DOMAIN saved = {seen[i].tags["oid"] : i \in {j \in 1..Len(seen) : IsObservation(seen[j])}}
    /\ \A oid \in DOMAIN saved :
        /\ saved[oid].value = ToUint64(seen[LatestOf(oid)].value.n)
        /\ saved[oid].when = seen[LatestOf(oid)].ts.Stop
    /\ Observed =>
        /\ ~HasPrior => DerivedOut = <<>>
        /\ Len(DerivedOut) <= 1
        /\ DerivedOut # <<>> =>
            /\ HasPrior
            /\ DerivedOut[1].name =
                 IF cook[Cur.name].Rename # "" THEN cook[Cur.name].Rename ELSE Cur.name
            /\ DerivedOut[1].tags = Cur.tags
            /\ IF cook[Cur.name].Rate
               THEN /\ DerivedOut[1].value.den = Elapsed
                    /\ IsResetDelta(DerivedOut[1].value.num, Cur, Prior)
               ELSE IsResetDelta(DerivedOut[1].value.u, Cur, Prior)
        /\ ( /\ HasPrior
             /\ Prior.value.n = 1000 /\ Prior.ts.Stop = 0
             /\ Cur.value.n = 1500 /\ Cur.ts.Stop = 10
             /\ cook[Cur.name] = [Rename |-> "rate", Orig |-> FALSE, Rate |-> TRUE] ) =>
            /\ Len(out) = 1
            /\ out[1].name = "rate"
            /\ out[1].value.num = ToUint64(50 * out[1].value.den)

\* 1000 at t=0, then another identifier, then 1500 at t=10: one "rate" sample
C8_Witness ==
    /\ Len(seen) = 3 /\ Observed /\ HasPrior
    /\ IsObservation(seen[2]) /\ seen[2].tags["oid"] # Cur.tags["oid"]
    /\ seen[1].value.n = 1000 /\ seen[1].ts.Stop = 0
    /\ Cur.value.n = 1500 /\ Cur.ts.Stop = 10
    /\ cook[Cur.name] = [Rename |-> "rate", Orig |-> FALSE, Rate |-> TRUE]
    /\ Len(out) = 1 /\ out[1].name = "rate"

\* C9: a sample with a recipe and no "oid" tag yields an error, nothing is
\* forwarded and saved stays as it is; a sample without a recipe is forwarded
\* as it is, with or without the tag.
C9_MissingOidTag ==
    [][seen' # seen =>
        LET smp == seen'[Len(seen')] IN
        /\ (smp.name \in DOMAIN cook /\ "oid" \notin DOMAIN smp.tags) =>
                (calcRet' # Nil /\ out' = <<>> /\ saved' = saved)
        /\ smp.name \notin DOMAIN cook =>
                (out' = <<smp>> /\ saved' = saved)]_vars

\* a cooked sample without the tag was refused while a baseline was stored
C9_Witness ==
    /\ Len(seen) >= 2
    /\ Cur.name \in DOMAIN cook /\ "oid" \notin DOMAIN Cur.tags
    /\ saved # Empty /\ calcRet # Nil /\ out = <<>>

-----------------------------------------------------------------------------
(* Properties of the Filter stage *)

SomePatternMatches ==
    \E i \in 1..Len(stage.filter.regexps) :
        MatchString(stage.filter.regexps[i], fcall.name)

\* C11: the Filter stage forwards a sample exactly when (its name matches at
\* least one pattern) equals keep: with keep only matching names are
\* forwarded, none at all under an empty pattern list; without keep only the
\* names no pattern matches; a sample that is not forwarded yields nil, and a
\* forwarded one yields what the wrapped stage answered.
C11_ForwardIffMatchEqualsKeep ==
    fcall.ret # NotCalled =>
        /\ fcall.fwd <=> (SomePatternMatches <=> stage.filter.keep)
        /\ (stage.filter.keep /\ stage.filter.regexps = <<>>) => ~fcall.fwd
        /\ ~fcall.fwd => fcall.ret = Nil
        /\ fcall.fwd => fcall.ret \in SendErrs

\* under keep and the patterns "^if" and "Time$", "sysUpTime" went through
\* on the second pattern
C11_Witness ==
    /\ fcall.ret # NotCalled
    /\ stage.filter.keep /\ Len(stage.filter.regexps) = 2
    /\ fcall.name = NameSysUpTime
    /\ ~MatchString(stage.filter.regexps[1], fcall.name)
    /\ fcall.fwd

-----------------------------------------------------------------------------
(* Properties of the identifier table and of the walk handler *)

Handled == hlast.outcome # NotCalled

\* the registered identifiers that the queried identifier starts with
RegisteredPrefixes == {k \in DOMAIN hcfg.rtree : IsPrefixOf(k, hlast.pdu.Name)}

\* C12: for any registered identifiers and any queried identifier the lookup
\* finds the longest registered identifier that is a prefix of the query, with
\* the unmatched remainder as suffix: the query is the found identifier
\* itself (empty suffix) or the found identifier, a dot and the suffix; it
\* finds nothing exactly when no registered identifier is a prefix.
C12_LongestPrefixAndRemainder ==
    Handled =>
        /\ hlast.found <=> RegisteredPrefixes # {}
        /\ hlast.found =>
            /\ hlast.sub \in RegisteredPrefixes
            /\ \A k \in RegisteredPrefixes : Len(k) <= Len(hlast.sub)
            /\ hlast.pdu.Name = hlast.sub => hlast.suffix = <<>>
            /\ hlast.pdu.Name # hlast.sub =>
                    hlast.pdu.Name = hlast.sub \o <<".">> \o hlast.suffix

\* the handler was called in this step
HandlerCalled == cyc'.n = cyc.n + 1

\* C13 (as claimed): a returned value whose identifier has no registered
\* ancestor aborts the walk with an error that reaches the error callback;
\* the value is not forwarded and no further value is processed.
C13_UnresolvedAborts ==
    (Handled /\ ~hlast.found) =>
        /\ cyc.state = "Done" /\ cyc.err # Nil /\ cyc.fnArg = cyc.err
        /\ hlast.sample = NoSample

\* C13 (amended): a value whose identifier no registered identifier is a
\* prefix of is forwarded unresolved, under its identifier as name, with the
\* static tags only and the value as it came, and the walk goes on unless the
\* Sender fails; a value whose longest registered prefix has no metadata
\* entry aborts the walk with an error that reaches the error callback and
\* is not forwarded; after a walk has ended no further value is processed.
C13_UnresolvedForwardedNoInfoAborts ==
    /\ []((Handled /\ ~hlast.found) =>
            /\ hlast.outcome = "raw"
            /\ hlast.ret \in SendErrs
            /\ hlast.sample = [name |-> hlast.pdu.Name, tags |-> hcfg.crit.Tags,
                               value |-> hlast.pdu.Value])
    /\ []((Handled /\ hlast.found /\ hlast.sub \notin DOMAIN hcfg.oidBase) =>
            /\ cyc.state = "Done" /\ cyc.err # Nil /\ cyc.fnArg = cyc.err
            /\ hlast.sample = NoSample)
    /\ [][/\ (HandlerCalled /\ ~hlast'.found) =>
                cyc'.state = IF hlast'.ret = Nil THEN "Walking" ELSE "Done"
          /\ cyc.state # "Walking" => (cyc' = cyc /\ hlast' = hlast)]_vars

\* an unresolved value was forwarded as the second value of a walk that is
\* still going on
C13_Witness ==
    /\ Handled /\ ~hlast.found /\ hcfg.rtree # Empty
    /\ cyc.n = 2 /\ cyc.state = "Walking"
    /\ hlast.sample.name = hlast.pdu.Name

\* a walk over a table loaded from an OID file ended at its first value
C13_NoInfoWitness ==
    /\ Handled /\ hlast.found /\ hlast.sub \notin DOMAIN hcfg.oidBase
    /\ cyc.n = 1 /\ cyc.state = "Done"

\* the reader of the value's declared type was called and could not decode it
Undecodable == Handled /\ hlast.outcome \in {"bad bulk name", "panic"}

\* C14: a value that its reader cannot decode (a representation the reader
\* does not expect, or an enumerated value without a label) is logged and
\* skipped: not forwarded, no error for the walk, the remaining values are
\* still processed; it never aborts the walk or the session.
C14_UndecodableSkipped ==
    /\ [](Undecodable =>
            /\ hlast.sample = NoSample /\ hlast.ret = Nil
            /\ ~hlast.panic /\ cyc.state # "Panicked")
    /\ [][(HandlerCalled /\ Undecodable') => cyc'.state = "Walking"]_vars

\* the call got as far as the composer, for the name and suffix it resolved
ReachedComposer ==
    Handled /\ hlast.outcome \in {"suppressed", "sent", "bad bulk name", "panic"}

ResolvedName ==
    LET v == hcfg.rtree[hlast.sub] IN
    IF v \in DOMAIN hcfg.crit.Rename THEN hcfg.crit.Rename[v] ELSE v

InInterfaceNamespace == SubSeq(ResolvedName, 1, 2) = <<"i", "f">>

\* C17: a sample whose resolved name starts with "if" and whose non-empty
\* suffix is not a key of the enabled cache is suppressed: never forwarded,
\* no error; a sample whose suffix is a key of the cache, whatever the
\* cache says of it, is not suppressed, and nothing else is suppressed.
C17_SuppressedUnlessEnabledKey ==
    ReachedComposer =>
        /\ ( /\ InInterfaceNamespace /\ hlast.suffix # <<>>
             /\ hlast.suffix \notin DOMAIN hcfg.cache.enabled ) =>
                /\ hlast.outcome = "suppressed"
                /\ hlast.sample = NoSample /\ hlast.ret = Nil /\ ~hlast.panic
        /\ hlast.suffix \in DOMAIN hcfg.cache.enabled => hlast.outcome # "suppressed"
        /\ hlast.outcome = "suppressed" =>
                (InInterfaceNamespace /\ hlast.suffix # <<>>)

\* interface 7 is not in a cache that knows interfaces 5 and 6: its sample
\* was suppressed and the walk goes on
C17_Witness ==
    /\ ReachedComposer /\ hlast.outcome = "suppressed"
    /\ hlast.suffix = Sfx7 /\ hcfg.cache = FullCache
    /\ cyc.state = "Walking"

\* the sample of interface 6, which the cache holds as down, was sent
C17_DownWitness ==
    /\ ReachedComposer /\ hlast.outcome = "sent"
    /\ hlast.suffix = Sfx6 /\ ~hcfg.cache.enabled[Sfx6]

\* a sample went to the Sender
Emitted == Handled /\ hlast.outcome \in {"sent", "raw"}

SessionKeys == {"host", "oid"}

OwnTags == ComposedTags(hcfg.crit, hcfg.cache, ResolvedName, hlast.suffix)

C18_WordsWitness ==
    /\ Emitted /\ hlast.outcome = "sent" /\ hcfg.callerTags = AllCallerTags
    /\ {"grouping", "member", "element"} \subseteq DOMAIN OwnTags

C18_IndexWitness ==
    /\ Emitted /\ hlast.outcome = "sent" /\ hcfg.callerTags = AllCallerTags
    /\ {"index", "suffix"} \subseteq DOMAIN OwnTags

-----------------------------------------------------------------------------
(* Properties of session setup, of Quit and of the refresh goroutine *)

\* the failure causes of session setup, read off what the session was
\* started with
InvalidVersion(p) == p.Version \notin {"1", "", "2", "2c", "3"}

BadSecurity(p) ==
    /\ p.Version = "3"
    /\ \/ ~p.AuthUser
       \/ p.SecLevel \notin {"NoAuthNoPriv", "AuthNoPriv", "AuthPriv"}
       \/ p.SecLevel \in {"AuthNoPriv", "AuthPriv"} /\ (~p.AuthPass \/ ~p.AuthProtoOk)
       \/ p.SecLevel = "AuthPriv" /\ (~p.PrivPass \/ ~p.PrivProtoOk)

Resolvable(id) == id[1] = "." \/ \E d \in Definitions : d.Name = id

UnresolvedIdentifier(c) ==
    \/ ~Resolvable(c.OID)
    \/ Len(c.Index) > 0 /\ ~Resolvable(c.Index)

ConnectFails(env) == env.Connect # Nil

\* the first columnInfo has a lookup to make and the lookup fails
BuildFails(c, env) ==
    /\ env.ColumnInfo # Nil
    /\ IsPrefixOf(Mib2, getOID(c.OID).oid) \/ Len(c.Index) > 0

SetupFailure(s) ==
    \/ InvalidVersion(prof[s].p)
    \/ BadSecurity(prof[s].p)
    \/ UnresolvedIdentifier(prof[s].c)
    \/ ConnectFails(prof[s].env)
    \/ BuildFails(prof[s].c, prof[s].env)

\* C15: a session whose setup fails for one of the listed causes never gets
\* past the start: once the start has run it has returned an error, and at
\* no time is a walk made, a value handled (so no sample reaches the Sender),
\* the error callback called, or the refresh goroutine started.
C15_SetupFailureIsSynchronous ==
    \A s \in Sessions :
        SetupFailure(s) =>
            /\ pc[s] \in {"Idle", "Failed", "Crashed"}
            /\ pc[s] = "Failed" => ret[s] = Setup(s).err /\ ret[s] \notin {Nil, Running}
            /\ pc[s] = "Idle" => ret[s] = Running
            /\ walks[s] = 0
            /\ latency[s] = NewLatency
            /\ fnArg[s] = NotCalled
            /\ rfr[s].pc \in {"None", "Crashed"} /\ rfr[s].n = 0

\* the start returned the error of the first columnInfo, every earlier step
\* of setup having succeeded
C15_Witness ==
    \E s \in Sessions :
        /\ pc[s] = "Failed"
        /\ BuildFails(prof[s].c, prof[s].env)
        /\ ~InvalidVersion(prof[s].p) /\ ~BadSecurity(prof[s].p)
        /\ ~UnresolvedIdentifier(prof[s].c) /\ ~ConnectFails(prof[s].env)
        /\ prof[s].c.Refresh > 0
        /\ ret[s] = "request error"

\* the start returned because of the version, of the v3 parameters, of an
\* identifier, of the connect
C15_VersionWitness ==
    \E s \in Sessions : pc[s] = "Failed" /\ ret[s] = "invalid snmp version"

C15_SecurityWitness ==
    \E s \in Sessions : pc[s] = "Failed" /\ ret[s] = "missing snmp v3 privacy password"

C15_IdentifierWitness ==
    \E s \in Sessions :
        /\ pc[s] = "Failed" /\ ret[s] = "no OID found"
        /\ Resolvable(prof[s].c.OID)

C15_ConnectWitness ==
    \E s \in Sessions : pc[s] = "Failed" /\ ret[s] = "connect error"

\* C16: the first Quit closes the signal, which from then on every session
\* waiting in its select can observe; a second Quit is not a no-op: it
\* panics, and the process is gone with all its sessions.
C16_SecondQuitPanics ==
    /\ quits >= 1 => done
    /\ done /\ ~panicked => \A s \in Sessions : pc[s] = "Waiting" => ENABLED ObserveDone(s)
    /\ panicked <=> quits >= 2
    /\ panicked => \A s \in Sessions : pc[s] = "Crashed"

\* Quit was called twice with a session in its loop
C16_Witness ==
    /\ quits = 2 /\ panicked
    /\ \E s \in Sessions : walks[s] > 0 /\ ret[s] = Running

\* C19: a session never has the walk of its polling loop and a bulk lookup
\* of its refresh goroutine outstanding on its client at the same time.
C19_OneRequestOutstanding ==
    \A s \in Sessions : ~(pc[s] = "Walking" /\ rfr[s].pc = "Requesting")

\* C20: once a session with Refresh > 0 has terminated and closed its
\* transport session, its refresh goroutine issues no request any more.
C20_NoRequestAfterClose ==
    [][\A s \in Sessions :
        pc[s] = "Terminated" /\ ~connOpen[s] /\ prof[s].c.Refresh > 0 =>
            ~(rfr'[s].pc = "Requesting" /\ rfr'[s] # rfr[s])]_vars

-----------------------------------------------------------------------------
(* Properties of shutdown, of the latency history and of the delay, again *)

\* C21: once Quit has been called, a session that is in Waiting does not
\* start another walk cycle: it stays there or terminates, also when a tick
\* of its ticker is already pending.
C21_WaitingAfterQuitTerminates ==
    [][\A s \in OneSession :
        (done /\ pc[s] = "Waiting") => pc'[s] \in {"Waiting", "Terminated"}]_vars

\* C25: every walk cycle that completes, whatever it returned, adds one
\* entry to the latency history (until the history is full).
C25_OneEntryPerCycle ==
    [][\A s \in OneSession :
        walks'[s] = walks[s] + 1 =>
            latency'[s].timeCnt = latency[s].timeCnt + 1]_vars

\* C26: when the average exceeds the delay, the delay becomes
\* 60 * (average div 60 + 1), the smallest multiple of 60 above the average,
\* the ticker is made anew with that period, and the session then sleeps
\* new delay - average seconds, more than none, before it walks.
C26_RaiseToNextMinuteAndSleep ==
    [][\A s \in OneSession :
        /\ (pc[s] = "Evaluating" /\ pc'[s] # "Evaluating" /\ mean'[s] > delay[s]) =>
                /\ delay'[s] = Minute * ((mean'[s] \div Minute) + 1)
                /\ delay'[s] % Minute = 0 /\ delay'[s] > mean'[s]
                /\ delay'[s] - Minute <= mean'[s]
                /\ clk'[s] = [period |-> delay'[s] * MsPerSec,
                              until |-> delay'[s] * MsPerSec, buf |-> FALSE]
                /\ pc'[s] = "Sleeping"
        /\ (pc[s] = "Evaluating" /\ pc'[s] = "Sleeping") => mean'[s] > delay[s]
        /\ (pc[s] = "Sleeping" /\ pc'[s] # "Sleeping") =>
                /\ sinceTimer'[s] = (delay[s] - mean[s]) * MsPerSec
                /\ sinceTimer'[s] > 0
                /\ pc'[s] = "Walking"]_vars

\* a session sleeps 20 s after its delay went from 90 to 120 for a mean of 100
C26_Witness ==
    \E s \in Sessions :
        /\ pc[s] = "Walking" /\ sinceTimer[s] = 20000
        /\ crit[s].Freq = 90 /\ delay[s] = 120 /\ mean[s] = 100

\* C27: a delay that is above the configured frequency comes down at every
\* evaluation whose average is at or below the frequency, and not below the
\* frequency, so that it gets back to the frequency.
C27_DelayComesBack ==
    [][\A s \in OneSession :
        (/\ pc[s] = "Evaluating" /\ pc'[s] # "Evaluating"
         /\ delay[s] > crit[s].Freq /\ mean'[s] <= crit[s].Freq) =>
            /\ delay'[s] < delay[s]
            /\ delay'[s] >= crit[s].Freq]_vars

\* C28: when the Sender returns an error for a value, the walk goes on: the
\* handler is still to be given the values that follow.
C28_SenderErrorContained ==
    [][(/\ cyc'.n = cyc.n + 1
        /\ hlast'.outcome \in {"sent", "raw"}
        /\ hlast'.ret # Nil) => cyc'.state = "Walking"]_vars

\* C29: a session that has returned, from a failed setup or from its loop,
\* has no transport session open.
C29_ClosedOnEveryExit ==
    \A s \in Sessions : pc[s] \in {"Failed", "Terminated"} => ~connOpen[s]

\* the last k durations recorded, and their integer mean
LastRecorded(k) == {hist[j] : j \in (Len(hist) - k + 1)..Len(hist)}

MeanOfLast(k) ==
    IF k = 0 THEN 0 ELSE SumSeq(SubSeq(hist, Len(hist) - k + 1, Len(hist))) \div k

\* C24: after n recordings the history holds the most recent min(n, 32) of
\* them and nothing else, its write index is inside the buffer or just past
\* its end, and avg() is the integer mean of those entries, 0 when there is
\* none.
C24_HoldsMostRecent ==
    LET n == Len(hist)
        k == IF n < RingLen THEN n ELSE RingLen
    IN  /\ ring.timeCnt = k
        /\ ring.timeIn \in 0..RingLen
        /\ {ring.times[i] : i \in 0..(k - 1)} = LastRecorded(k)
        /\ avg(ring) = MeanOfLast(k)

-----------------------------------------------------------------------------
(* Properties of the table build *)

FeedDefs == {load.feed[i] : i \in 1..Len(load.feed)}

\* C22: when the table build has returned, every definition of the feed is
\* in the identifier table, and the table does not change any more.
C22_TableCompleteOnReturn ==
    /\ [](load.pc = "Returned" =>
            /\ TreeOf(load.table) = TreeOf(FeedDefs)
            /\ BaseOf(load.table) = BaseOf(FeedDefs))
    /\ [][load.pc = "Returned" => load'.table = load.table]_vars

-----------------------------------------------------------------------------
(* Properties of the two mutexes *)

CacheMaps == {"enabled", "columns", "aliases", "descrs", "suffixes"}

\* what each thread holds
Holds(t) == {x \in {"m", "tux"} : (x = "m" /\ lk.m = t) \/ (x = "tux" /\ lk.tux = t)}

\* a thread that is not running is waiting in Lock() for a mutex another
\* thread holds
PollBlocked == ~ENABLED PollLock /\ ~ENABLED PollInside /\ ~ENABLED PollMove

\* C23: the cache maps are touched only by a thread that holds m, the
\* latency history and the timer only by one that holds tux; no thread holds
\* both; outside the critical sections a thread holds nothing, whichever way
\* it left them; and there is no deadlock: a thread that cannot go on waits
\* for a mutex held by the other thread, which can go on.
C23_MutexDiscipline ==
    /\ lk.acc.obj \in CacheMaps => lk.acc.m = lk.acc.t
    /\ lk.acc.obj \in {"times", "timer"} => lk.acc.tux = lk.acc.t
    /\ \A t \in {"poll", "refresh"} : Cardinality(Holds(t)) <= 1
    /\ lk.ppc \in {"avg", "walk", "started", "tagsIf", "tagsIndex"} => Holds("poll") = {}
    /\ lk.rpc \in {"idle", "columnInfo"} => Holds("refresh") = {}
    /\ PollBlocked => PollWants(lk) = "m" /\ lk.m = "refresh" /\ ENABLED RefreshStep
    /\ ~ENABLED RefreshStep => lk.rpc = "columnInfo" /\ lk.m = "poll" /\ ENABLED PollInside

\* the handler has left pduTags by its early return for an interface that
\* is not in enabled, and the refresh thread, which was waiting, has m
C23_Witness ==
    /\ lk.acc = [t |-> "poll", obj |-> "enabled", m |-> "poll", tux |-> Free]
    /\ lk.ppc = "walk"
    /\ lk.m = "refresh" /\ lk.rpc = "inInfo"

\* the polling thread waits in pduTags for the m the refresh thread holds
C23_BlockedWitness ==
    /\ PollBlocked /\ lk.ppc = "tagsIndex" /\ lk.left = 3

-----------------------------------------------------------------------------
(* Properties of the static tags *)

\* C30: the "host" tag of every sample of a session is that session's
\* target.
C30_HostTagIsOwnTarget ==
    \A s \in DOMAIN sh.sess :
        sh.sess[s].host # Unset => sh.sess[s].host = HostOf(s)

-----------------------------------------------------------------------------
(* Properties of identifier resolution at component boundaries *)

\* the found identifier ends where a component of the queried identifier ends
AtComponentBoundary ==
    \/ hlast.pdu.Name = hlast.sub
    \/ /\ Len(hlast.pdu.Name) > Len(hlast.sub)
       /\ hlast.pdu.Name[Len(hlast.sub) + 1] = "."

\* C31: the handler resolves an identifier only to a registered identifier
\* that ends at one of its component boundaries, and the suffix is exactly
\* the dotted components after the found identifier: ".1.10.7" does not
\* resolve to a registered ".1.1".
C31_ResolvesAtComponentBoundary ==
    (Handled /\ hlast.found) =>
        /\ AtComponentBoundary
        /\ hlast.pdu.Name = hlast.sub => hlast.suffix = <<>>
        /\ hlast.pdu.Name # hlast.sub =>
                hlast.pdu.Name = hlast.sub \o <<".">> \o hlast.suffix

-----------------------------------------------------------------------------
(* Properties of the operational status *)

\* the most recent status lookup reported the interface of the sample with
\* a status other than up
ReportedDown ==
    /\ hlast.suffix \in DOMAIN hcfg.cache.enabled
    /\ ~hcfg.cache.enabled[hlast.suffix]

\* C32: a sample in the interface namespace whose interface the most recent
\* operational-status lookup reported with a status other than up is
\* suppressed and never forwarded.
C32_DownInterfaceSuppressed ==
    (ReachedComposer /\ InInterfaceNamespace /\ ReportedDown) =>
        /\ hlast.outcome = "suppressed"
        /\ hlast.sample = NoSample

-----------------------------------------------------------------------------
(* Properties of the cache refresh *)

\* a columnInfo() of the refresh goroutine of session s ends with an error
RefreshFailed(s) ==
    /\ rfr[s].pc = "Requesting"
    /\ rfr'[s].pc = "Waiting" /\ rfr'[s].err # Nil

\* the first columnInfo() of session s, the one of setup, failed
BuildFailed(s) ==
    /\ Setup(s).connected
    /\ Setup(s).err # Nil /\ Setup(s).err = prof[s].env.ColumnInfo

\* C33: a failure of a scheduled refresh is only logged: the session goes
\* on as it was, every map filled before the failed refresh still has its
\* entries (the maps of the other lookups exactly as they were), and the
\* goroutine waits for the next tick, the same counter of refreshes behind
\* it; a failure of the initial build aborts setup with that error: the
\* start returns it, no walk is made and no refresh goroutine is started.
C33_RefreshFailureOnlyLogged ==
    /\ [][\A s \in Sessions : RefreshFailed(s) =>
            /\ UNCHANGED pollVars
            /\ ~panicked'
            /\ DOMAIN rfr[s].cache \subseteq DOMAIN rfr'[s].cache
            /\ \A i \in DOMAIN rfr[s].cache :
                    i # Current(s) => rfr'[s].cache[i] = rfr[s].cache[i]
            /\ rfr'[s].n = rfr[s].n]_vars
    /\ [](\A s \in Sessions :
            (rfr[s].pc = "Waiting" /\ rfr[s].err # Nil /\ rfr[s].n < MaxRefresh) =>
                ENABLED RefreshTick(s))
    /\ [](\A s \in Sessions : BuildFailed(s) =>
            /\ pc[s] \in {"Idle", "Failed", "Crashed"}
            /\ pc[s] = "Failed" => ret[s] = prof[s].env.ColumnInfo
            /\ walks[s] = 0
            /\ rfr[s].pc \in {"None", "Crashed"} /\ rfr[s].n = 0)

\* the second refresh is under way after the first one failed at its third
\* lookup, and the session walks
C33_Witness ==
    \E s \in Sessions :
        /\ rfr[s].pc = "Requesting" /\ rfr[s].n = 2 /\ rfr[s].err # Nil
        /\ rfr[s].cache = <<1, 1, 0, 0>>
        /\ pc[s] = "Walking"

\* setup returned the error of the initial build
C33_BuildWitness ==
    \E s \in Sessions : BuildFailed(s) /\ pc[s] = "Failed" /\ ret[s] = "request error"

-----------------------------------------------------------------------------
(* Properties of the stored DataPoint and of the Calc stage's result *)

\* C34: whenever the Calc stage has consumed a sample with a recipe, an
\* "oid" tag and a value counter normalizes, the DataPoint stored for that
\* identifier is (the normalized value, the sample's stop instant), also
\* when no derived sample was sent and when the wrapped stage answered an
\* error.
C34_StoredIsThisObservation ==
    Observed =>
        /\ HasKey(saved, Cur.tags["oid"])
        /\ saved[Cur.tags["oid"]] =
                [value |-> ToUint64(Cur.value.n), when |-> Cur.ts.Stop]

\* a second observation of another value at the instant of the first, under
\* a rate recipe that forwards the original: nothing derived was sent and the
\* wrapped stage refused the original
C34_Witness ==
    /\ Observed /\ HasPrior /\ Elapsed = 0
    /\ cook[Cur.name].Rate /\ cook[Cur.name].Orig
    /\ Prior.value.n = 1000 /\ Cur.value.n = 1500
    /\ DerivedOut = <<>> /\ calcRet # Nil
    /\ saved[Cur.tags["oid"]].value = ToUint64(1500)


\* what the wrapped stage answered to the derived sample of the last call
DerivedErr == answers[1]

\* C35: when the recipe's Orig is set the Calc stage sends the derived
\* sample first and the original after it, and returns what forwarding the
\* original returned; otherwise it returns the result of the derived sample,
\* nil when none was sent; in both cases an error the wrapped stage answers
\* to the derived sample is what the caller of the Calc stage gets.
C35_DerivedErrorReported ==
    Observed =>
        /\ cook[Cur.name].Orig =>
            /\ out = Append(DerivedOut, Cur)
            /\ calcRet = answers[Len(answers)]
        /\ ~cook[Cur.name].Orig =>
            /\ out = DerivedOut
            /\ DerivedOut = <<>> => calcRet = Nil
        /\ (DerivedOut # <<>> /\ DerivedErr # Nil) => calcRet = DerivedErr

-----------------------------------------------------------------------------
(* Properties of the fan-out *)

\* C36: the fan-out calls both branches exactly once per sample, the first
\* and then the second, whether or not the first fails, and the second
\* branch gets the name, the value, the timestamp and the tag contents the
\* fan-out was passed, whatever the first branch does: the same tags also
\* behind a first branch that is a Strip stage.
C36_SecondBranchGetsTheSample ==
    fan.calls # <<>> =>
        /\ Len(fan.calls) = 2
        /\ fan.calls[1].to = "s1" /\ fan.calls[2].to = "s2"
        /\ fan.calls[2].got.name = fan.passed.name
        /\ fan.calls[2].got.value = fan.passed.value
        /\ fan.calls[2].got.ts = fan.passed.ts
        /\ fan.calls[2].got.tags = fan.passed.tags

-----------------------------------------------------------------------------
(* Properties of the decoders *)

\* the tags of the first four words of a suffix
WordTags == <<"grouping", "member", "element", "item">>

\* pduTags has composed the tags of a suffix made of length-prefixed words
Composed == fx.fn = "pduTags" /\ fx.done /\ fx.in.made = "words"

\* C37: when the raw suffix is not asked for, every non-empty word among the
\* first four words of the suffix is attached under its tag: the first as
\* "grouping", the second as "member", the third as "element", the fourth as
\* "item", however many words the suffix has; the third word of a suffix of
\* exactly three words is attached as "element".
C37_EachWordAttached ==
    Composed =>
        \A i \in 1..MaxWords :
            (i <= Len(fx.in.words) /\ fx.in.words[i] # <<>>) =>
                /\ WordTags[i] \in DOMAIN fx.out
                /\ fx.out[WordTags[i]] = fx.in.words[i]


\* oidStrings has returned
Decomposed == fx.fn = "oidStrings" /\ fx.done

\* the words before the last one
Front(ws) == SubSeq(ws, 1, Len(ws) - 1)

\* C38 (as claimed): for a suffix formed of the length-prefixed printable
\* words w1..wk oidStrings returns exactly <<w1, .., wk>>, and when a length
\* prefix runs past the end of the suffix it stops without producing a
\* further word: the words before that prefix are what it returns.
C38_StopsWithoutFurtherWord ==
    Decomposed =>
        /\ fx.in.made = "words" => fx.out = fx.in.words
        /\ fx.in.made = "overrun" => fx.out = Front(fx.in.words)

\* C38 (amended): oidStrings returns for every suffix, with no more words
\* than the suffix has components; for a suffix formed of the length-prefixed
\* printable words w1..wk it returns exactly <<w1, .., wk>>; when a length
\* prefix runs past the end of the suffix, the components that are left
\* after it, none included, make one more word, the last one, and the
\* decomposition stops.
C38_LastWordIsWhatIsLeft ==
    Decomposed =>
        /\ fx.in.made \in {"words", "overrun"} => fx.out = fx.in.words
        /\ Len(fx.out) <= Len(Split(fx.in.suffix))

\* the length 3 is followed by the two bytes of "AB", after the word "B"
C38_Witness ==
    /\ Decomposed /\ fx.in.made = "overrun" /\ fx.in.over = 1
    /\ fx.in.suffix = Encode(<<<<"B">>>>) \o <<".", "3", ".", "6", "5", ".", "6", "6">>
    /\ fx.out = <<<<"B">>, <<"A", "B">>>>

\* the suffix of the words "AB" and "A"
C38_WordsWitness ==
    /\ Decomposed /\ fx.in.made = "words"
    /\ fx.in.suffix = <<"2", ".", "6", "5", ".", "6", "6", ".", "1", ".", "6", "5">>
    /\ fx.out = <<<<"A", "B">>, <<"A">>>>

-----------------------------------------------------------------------------
(* Properties of the tables oidReader fills *)

\* the identifier of a definition, with its leading dot
Dotted(oid) == IF Head(oid) = "." THEN oid ELSE <<".">> \o oid

\* the identifiers and the short names inserted so far
Registered == {Dotted(tbl.log[i].OID) : i \in 1..Len(tbl.log)}

ShortNames == {tbl.log[i].short : i \in 1..Len(tbl.log)}

\* the first definition of a short name, the last definition of an identifier
FirstNamed(short) ==
    CHOOSE i \in 1..Len(tbl.log) :
        tbl.log[i].short = short /\ \A j \in 1..(i - 1) : tbl.log[j].short # short

LastOf(oid) ==
    CHOOSE i \in 1..Len(tbl.log) :
        /\ Dotted(tbl.log[i].OID) = oid
        /\ \A j \in (i + 1)..Len(tbl.log) : Dotted(tbl.log[j].OID) # oid

\* the short name of definition i had been taken when it was inserted
NameWasUsed(i) == \E j \in 1..(i - 1) : tbl.log[j].short = tbl.log[i].short

\* C39: after any sequence of insertions every registered identifier has
\* exactly one entry of oidBase and of the prefix table, that of its last
\* definition; lookupOID maps every short name to the identifier of the
\* first definition with that name and an entry of it is never overwritten;
\* a later definition with a short name that is in use is registered in the
\* prefix table under its fully qualified name, the first one under the
\* short name.
C39_FirstNameWinsLaterQualified ==
    /\ [](/\ DOMAIN tbl.maps.oidBase = Registered
          /\ DOMAIN tbl.maps.rtree = Registered
          /\ DOMAIN tbl.maps.lookupOID = ShortNames
          /\ \A n \in ShortNames :
                tbl.maps.lookupOID[n] = Dotted(tbl.log[FirstNamed(n)].OID)
          /\ \A oid \in Registered :
                LET i == LastOf(oid) IN
                /\ tbl.maps.oidBase[oid].Name = tbl.log[i].Name
                /\ tbl.maps.rtree[oid] =
                        IF NameWasUsed(i) THEN Qualified(tbl.log[i].mib, tbl.log[i].short)
                        ELSE tbl.log[i].short)
    /\ [][\A n \in DOMAIN tbl.maps.lookupOID :
            /\ n \in DOMAIN tbl'.maps.lookupOID
            /\ tbl'.maps.lookupOID[n] = tbl.maps.lookupOID[n]]_vars

\* M::a at .1, then N2::a at 2, then N2::b at .1: "a" is still .1, N2::a is
\* registered under its full name, and .1 has the one entry of its last
\* definition
C39_Witness ==
    /\ Len(tbl.log) = 3
    /\ tbl.log[1].Name = Qualified(<<"M">>, <<"a">>) /\ tbl.log[1].OID = <<".", "1">>
    /\ tbl.log[2].Name = Qualified(<<"N", "2">>, <<"a">>) /\ tbl.log[2].OID = <<"2">>
    /\ tbl.log[3].Name = Qualified(<<"N", "2">>, <<"b">>) /\ tbl.log[3].OID = <<".", "1">>
    /\ tbl.maps.lookupOID[<<"a">>] = <<".", "1">>
    /\ tbl.maps.rtree[<<".", "2">>] = <<"N", "2", ":", ":", "a">>
    /\ tbl.maps.rtree[<<".", "1">>] = <<"b">>
    /\ tbl.maps.dupeNames[<<"a">>] = <<".", "1">>

-----------------------------------------------------------------------------
(* Properties of the BITS decoder *)

\* the pduReader of bitFormatter has returned for a value of bytes
BitsDecoded == fx.fn = "bitFormatter" /\ fx.done /\ ~fx.out.panic

\* bit p of the bytes, position 0 being the most significant bit of the
\* first byte
IsSet(data, p) == (data[(p \div 8) + 1] \div 2^(7 - (p % 8))) % 2 = 1

SetPositions(data) == {p \in 0..(8 * Len(data) - 1) : IsSet(data, p)}

\* the labels of the positions from p on, each behind a comma
RECURSIVE LabelsFrom(_, _, _)
LabelsFrom(m, ps, p) ==
    IF \A q \in ps : q < p THEN ""
    ELSE IF p \in ps THEN "," \o m[p] \o LabelsFrom(m, ps, p + 1)
    ELSE LabelsFrom(m, ps, p + 1)

\* C40: the BITS decoder numbers the bit positions from 0 at the most
\* significant bit of the first byte; when every set position has a label
\* it returns the labels of all set positions, in increasing order of
\* position, joined by commas, and when any set position has no label it
\* returns a decode error.
C40_LabelsOfSetBitsMsbFirst ==
    BitsDecoded =>
        LET ps == SetPositions(fx.in.pdu.Value.data) IN
        IF ps \subseteq DOMAIN fx.in.m
        THEN /\ fx.out.err = Nil
             /\ fx.out.value.type = "string"
             /\ ps # {} => "," \o fx.out.value.s = LabelsFrom(fx.in.m, ps, 0)
             /\ ps = {} => fx.out.value.s = ""
        ELSE fx.out.err # Nil

\* the bytes 0x81 0x80 have the positions 0, 7 and 8 set
C40_Witness ==
    /\ BitsDecoded
    /\ fx.in.pdu.Value.data = <<129, 128>>
    /\ DOMAIN fx.in.m = {0, 1, 7, 8}
    /\ fx.out.err = Nil /\ fx.out.value.s = "a,h,i"

\* position 7 of the byte 0x01 has no label
C40_ErrorWitness ==
    /\ BitsDecoded
    /\ fx.in.pdu.Value.data = <<1>>
    /\ DOMAIN fx.in.m = {0, 15}
    /\ fx.out.err # Nil

=============================================================================
